---- MODULE Spec2Model ----
(***************************************************************************)
(* Model of the rodent-detection appliance: the alert coordinator          *)
(* (src/alert_engine.py), the orchestrator tasks (src/main.py), the        *)
(* notification dispatcher (src/notification_service.py) and the           *)
(* persistence layer (src/database.py).                                    *)
(*                                                                         *)
(* Time is a discrete clock `now`; one tick stands for one minute, the     *)
(* unit of cooldown_minutes.  References to AlertEvent objects are indices *)
(* into `events`; 0 stands for None.                                       *)
(***************************************************************************)
EXTENDS Integers, Sequences, FiniteSets, TLC

\* ---------------------------------------------------------------- bounds
MaxTime == 2
MaxDetections == 3
EngMaxTime == 4
MaxCalls == 3
MaxDelay == 1
MaxHistory == 1
MaxRows == 2
DbMaxTime == 2
cooldown_minutes == 2
MaintMaxMinutes == 1
MaintMaxDays == 1
MaintMaxCalls == 2
MaintMaxHistory == 2
MaxRetentionDays == 1
MaxYields == 2
MaxFiles == 3
MaxFileFrames == 2
MaxFrameSkip == 2
MaxNmsLen == 3

\* ------------------------------------------------------------- constants
ClassNames == {"norway_rat", "roof_rat"}
ChannelOrder == <<"sms", "email", "emailjs", "push">>
Outcomes == {"ok", "fail", "raise"}
DatetimeMin == 0 - 1000000
NullTime == 0 - 1
None == 0

VARIABLES
    now,               \* datetime.now()
    running,           \* RodentDetectionSystem.running
    last_alert_times,  \* AlertLogicEngine.last_alert_times (keys present only)
    pending_alerts,    \* AlertLogicEngine.pending_alerts
    alert_history,     \* AlertLogicEngine.alert_history
    events,            \* the AlertEvent objects created so far
    channels,          \* NotificationService.channels, in insertion order
    db,                \* rows of the detections table
    fp_pc,             \* position of the _frame_processor task
    frame,             \* detections of the current frame still to process
    alert_event,       \* process_frame's local alert_event
    ndets,             \* Detection objects constructed so far
    ap_pc,             \* position of the alert_processor task
    ap_alert,          \* alert_processor's local alert_event
    lastcall,          \* observation of the latest process_detection call
    prevcall,          \* observation of the call before it
    created_times,     \* per class, times at which an alert was created
    sent_count,        \* per event, calls of NotificationService.send_alert
    last_results,      \* results of the latest NotificationService.send_alert
    last_attempts,     \* channels attempted by that call, in order
    last_outcomes,     \* what each channel did in that call
    last_op,           \* the engine query or cleanup just performed, if any
    mt_pc,             \* position of the maintenance_task task
    hc_pc,             \* position of the health_check task
    run_pc,            \* position of run()
    src_mode,          \* what the video source's get_frames is doing
    source_kind,       \* WyzeRTSPSource or WyzeBridgeSource
    rtsp_pc,           \* position of the stream source's get_frames generator
    src_up,            \* the camera stream can be opened and read
    sleep_left,        \* seconds left of time.sleep(reconnect_delay)
    since_frame,       \* time.time() - last_frame_time, up to frame_interval
    waited,            \* seconds between the latest failure and the reconnect
    last_fail,         \* the latest failure: of the open or of a read
    yields_since_fail, \* frames yielded since then, up to MaxYields
    since_yield,       \* seconds from the previous yield, up to frame_interval
    sd_pc,             \* position of WyzeSDCardSource.get_frames
    sd_files,          \* video files on the card: st_mtime -> frames in the file
    processed_files,   \* WyzeSDCardSource.processed_files
    new_files,         \* get_frames' new_files still to process
    video_file,        \* the file _process_video_file is reading
    frame_count,       \* _process_video_file's frame_count
    frame_skip,        \* WyzeSDCardSource.frame_skip
    sd_scan,           \* scans of the card that found new files
    sd_time,           \* time.time()
    delivered,         \* the frames yielded so far, in order
    nms_pc,            \* before or after the call of apply_nms
    nms_in,            \* the detections given to apply_nms
    iou_threshold,     \* self.iou_threshold, a fraction [num, den]
    nms_by,            \* which tester's apply_nms ran
    nms_out,           \* the list apply_nms returned
    cd_pc,             \* before or after the cooldown queries
    cd_last,           \* last_alert_times[C], in ticks of the fine clock
    cd_now,            \* datetime.now() of the queries, in the same ticks
    cd_status,         \* _get_cooldown_status' entry for C, once computed
    cd_send,           \* should_send_alert's answer for C, once computed
    image_files,       \* the detection images on disk, by path
    cl_last,           \* the cleanup_old_records call that just returned: the state before it
    dp_pc,             \* alert_processor: at its loop, in send_alert, in a channel
    dp_pending,        \* alerts waiting in pending_alerts
    dp_i,              \* position of NotificationService.send_alert in self.channels
    dp_results,        \* its results dict so far
    dp_blocking,       \* the channel whose send_alert never returns, if any
    dp_done,           \* alerts whose dispatch has returned
    dec_pc,            \* before or after the call of decode_output
    dec_rows,          \* rows of class scores in the model output: 1 or 2
    dec_anchors,       \* the raw output, one entry per anchor
    conf_threshold,    \* self.conf_threshold, in thousandths
    frame_shape,       \* (height, width) of the original frame
    dec_out            \* the list decode_output returned

vars == <<now, running, last_alert_times, pending_alerts, alert_history,
          events, channels, db, fp_pc, frame, alert_event, ndets,
          ap_pc, ap_alert, lastcall, prevcall, created_times, sent_count,
          last_results, last_attempts, last_outcomes, last_op,
          mt_pc, hc_pc, run_pc, src_mode,
          source_kind, rtsp_pc, src_up, sleep_left, since_frame, waited,
          last_fail, yields_since_fail, since_yield,
          sd_pc, sd_files, processed_files, new_files, video_file,
          frame_count, frame_skip, sd_scan, sd_time, delivered,
          nms_pc, nms_in, iou_threshold, nms_by, nms_out,
          cd_pc, cd_last, cd_now, cd_status, cd_send,
          image_files, cl_last,
          dp_pc, dp_pending, dp_i, dp_results, dp_blocking, dp_done,
          dec_pc, dec_rows, dec_anchors, conf_threshold, frame_shape, dec_out>>

engine_vars == <<last_alert_times, pending_alerts, alert_history, events>>
fp_vars == <<fp_pc, frame, alert_event, ndets>>
ap_vars == <<ap_pc, ap_alert>>
notify_obs == <<last_results, last_attempts, last_outcomes>>
pd_obs == <<lastcall, prevcall, created_times>>
sh_vars == <<mt_pc, hc_pc, run_pc, src_mode>>
rtsp_vars == <<source_kind, rtsp_pc, src_up, sleep_left, since_frame, waited,
               last_fail, yields_since_fail, since_yield>>
sd_vars == <<sd_pc, sd_files, processed_files, new_files, video_file,
             frame_count, frame_skip, sd_scan, sd_time, delivered>>
nms_vars == <<nms_pc, nms_in, iou_threshold, nms_by, nms_out>>
cd_vars == <<cd_pc, cd_last, cd_now, cd_status, cd_send>>
cl_vars == <<image_files, cl_last>>
dp_vars == <<dp_pc, dp_pending, dp_i, dp_results, dp_blocking, dp_done>>
dec_vars == <<dec_pc, dec_rows, dec_anchors, conf_threshold, frame_shape, dec_out>>
aux_vars == <<cd_vars, cl_vars, dp_vars, dec_vars>>
ext_rest == <<sh_vars, rtsp_vars, sd_vars, nms_vars, aux_vars>>
ext_vars == <<last_op, ext_rest>>

\* ------------------------------------------------------------ helpers
EmptyMap == [x \in {} |-> TRUE]

SetMax(S) == CHOOSE m \in S : \A x \in S : x <= m

Count(seq, x) == Cardinality({i \in 1..Len(seq) : seq[i] = x})

SeqsUpTo(S, n) == UNION {[1..k -> S] : k \in 0..n}

\* ------------------------------------------------- detection_engine.py
\* Detection.__init__: the attributes a Detection object has.  `serial`
\* stands for the object's identity; it is not an attribute of the object.
Detection(cls, ts, k) == [class_name |-> cls, timestamp |-> ts, serial |-> k]

HasAttr(obj, name) == name \in DOMAIN obj

\* ----------------------------------------------------- alert_engine.py
\* AlertEvent.__init__
AlertEvent(detection, image_path, t) ==
    [detection |-> detection, image_path |-> image_path, created_at |-> t,
     alert_sent |-> FALSE, alert_sent_at |-> NullTime]

\* defaultdict(lambda: datetime.min).__getitem__: the value read
LatGet(lat, cls) == IF cls \in DOMAIN lat THEN lat[cls] ELSE DatetimeMin

\* defaultdict.__getitem__: a missing key is inserted with the default
LatTouch(lat, cls) ==
    [k \in DOMAIN lat \cup {cls} |-> IF k \in DOMAIN lat THEN lat[k] ELSE DatetimeMin]

LatSet(lat, cls, t) ==
    [k \in DOMAIN lat \cup {cls} |-> IF k = cls THEN t ELSE lat[k]]

\* should_send_alert's test `time_since_last_alert >= timedelta(minutes=
\* cooldown_minutes)`, on times and a cooldown in one unit
cooldown_over(last_alert_time, current_time, cooldown) ==
    current_time - last_alert_time >= cooldown

should_send_alert_early(lat, cls, t) ==
    t - LatGet(lat, cls) >= cooldown_minutes - 1

should_send_alert(lat, cls, t) ==
    cooldown_over(LatGet(lat, cls), t, cooldown_minutes)

update_skipped(lat, cls, t) == lat

update_global(lat, cls, t) ==
    [k \in DOMAIN lat \cup {cls} |-> t]

update_last_alert_time(lat, cls, t) == LatSet(lat, cls, t)

\* process_detection, as a function of the engine state.  t0 is the clock
\* read by should_send_alert, t1 by AlertEvent.__init__, t2 by
\* update_last_alert_time.  pending_alerts is an unbounded asyncio.Queue, so
\* `await put` never suspends and the call runs without interleaving.
pd_no_enqueue(lat, q, evs, detection, image_path, t0, t1, t2) ==
    IF should_send_alert(lat, detection.class_name, t0)
    THEN [lat |-> update_last_alert_time(LatTouch(lat, detection.class_name),
                                         detection.class_name, t2),
          queue |-> q,
          events |-> Append(evs, AlertEvent(detection, image_path, t1)),
          result |-> Len(evs) + 1]
    ELSE [lat |-> LatTouch(lat, detection.class_name),
          queue |-> q, events |-> evs, result |-> None]

pd_cooldown_stamps(lat, q, evs, detection, image_path, t0, t1, t2) ==
    IF should_send_alert(lat, detection.class_name, t0)
    THEN [lat |-> update_last_alert_time(LatTouch(lat, detection.class_name),
                                         detection.class_name, t2),
          queue |-> Append(q, Len(evs) + 1),
          events |-> Append(evs, AlertEvent(detection, image_path, t1)),
          result |-> Len(evs) + 1]
    ELSE [lat |-> update_last_alert_time(LatTouch(lat, detection.class_name),
                                         detection.class_name, t2),
          queue |-> q, events |-> evs, result |-> None]

pd_enqueue_only(lat, q, evs, detection, image_path, t0, t1, t2) ==
    IF should_send_alert(lat, detection.class_name, t0)
    THEN [lat |-> update_last_alert_time(LatTouch(lat, detection.class_name),
                                         detection.class_name, t2),
          queue |-> Append(q, Len(evs) + 1),
          events |-> Append(evs, AlertEvent(detection, image_path, t1)),
          result |-> None]
    ELSE [lat |-> LatTouch(lat, detection.class_name),
          queue |-> q, events |-> evs, result |-> None]

pd_defers_cooldown(lat, q, evs, detection, image_path, t0, t1, t2) ==
    IF should_send_alert(lat, detection.class_name, t0)
    THEN [lat |-> LatTouch(lat, detection.class_name),
          queue |-> Append(q, Len(evs) + 1),
          events |-> Append(evs, AlertEvent(detection, image_path, t1)),
          result |-> Len(evs) + 1]
    ELSE [lat |-> LatTouch(lat, detection.class_name),
          queue |-> q, events |-> evs, result |-> None]

process_detection(lat, q, evs, detection, image_path, t0, t1, t2) ==
    IF should_send_alert(lat, detection.class_name, t0)
    THEN [lat |-> update_last_alert_time(LatTouch(lat, detection.class_name),
                                         detection.class_name, t2),
          queue |-> Append(q, Len(evs) + 1),
          events |-> Append(evs, AlertEvent(detection, image_path, t1)),
          result |-> Len(evs) + 1]
    ELSE [lat |-> LatTouch(lat, detection.class_name),
          queue |-> q, events |-> evs, result |-> None]

\* get_pending_alert: asyncio.wait_for(self.pending_alerts.get(), 1.0); the
\* asyncio.Queue hands out its oldest item, a timeout returns None
get_pending_newest(q) ==
    IF q = <<>> THEN [alert |-> None, queue |-> q]
    ELSE [alert |-> q[Len(q)], queue |-> SubSeq(q, 1, Len(q) - 1)]

get_pending_alert(q) ==
    IF q = <<>> THEN [alert |-> None, queue |-> q]
    ELSE [alert |-> Head(q), queue |-> Tail(q)]

\* mark_alert_sent
mark_history_only(evs, hist, e, t) ==
    [events |-> evs, history |-> Append(hist, e)]

mark_alert_sent(evs, hist, e, t) ==
    [events |-> [evs EXCEPT ![e].alert_sent = TRUE, ![e].alert_sent_at = t],
     history |-> Append(hist, e)]

\* timedelta(...) in minutes, the unit of the model's clock
MinutesPerHour == 60
HoursPerDay == 24
timedelta_minutes(m) == m
timedelta_hours(h) == h * MinutesPerHour
timedelta_days(d) == d * HoursPerDay * MinutesPerHour
SecondsPerMinute == 60
total_seconds(td) == td * SecondsPerMinute

Max(a, b) == IF a >= b THEN a ELSE b

\* _get_cooldown_status: iterates last_alert_times.items(), which reads the
\* dict without inserting; `lat` is the dict as the call leaves it
status_by_lookup(lat, t) ==
    LET touched == LatTouch(LatTouch(lat, "norway_rat"), "roof_rat")
    IN  [lat |-> touched,
         status |-> [c \in DOMAIN touched |->
            LET cooldown_remaining ==
                    Max(0, timedelta_minutes(cooldown_minutes) - (t - touched[c]))
            IN  [last_alert |-> touched[c],
                 cooldown_active |-> total_seconds(cooldown_remaining) > 0,
                 cooldown_remaining_seconds |-> total_seconds(cooldown_remaining)]]]

\* one entry of _get_cooldown_status.  Times and the cooldown are in ticks
\* of tick_num/tick_den seconds; total_seconds() is the exact number of
\* seconds and int() drops its fraction (the value is never negative)
cooldown_entry_inclusive(last_alert_time, current_time, cooldown, tick_num, tick_den) ==
    LET time_since_alert == current_time - last_alert_time
        cooldown_remaining == Max(0, cooldown - time_since_alert)
    IN  [last_alert |-> last_alert_time,
         cooldown_active |-> cooldown - time_since_alert >= 0,
         cooldown_remaining_seconds |-> (cooldown_remaining * tick_num) \div tick_den]

cooldown_entry(last_alert_time, current_time, cooldown, tick_num, tick_den) ==
    LET time_since_alert == current_time - last_alert_time
        cooldown_remaining == Max(0, cooldown - time_since_alert)
    IN  [last_alert |-> last_alert_time,
         cooldown_active |-> cooldown_remaining * tick_num > 0,
         cooldown_remaining_seconds |-> (cooldown_remaining * tick_num) \div tick_den]

_get_cooldown_status(lat, t) ==
    [lat |-> lat,
     status |-> [c \in DOMAIN lat |->
        cooldown_entry(lat[c], t, timedelta_minutes(cooldown_minutes),
                       total_seconds(1), 1)]]

\* get_alert_statistics: the returned dict and last_alert_times after the call
get_alert_statistics(lat, hist, evs, t) ==
    LET cs == _get_cooldown_status(lat, t)
        classes == {evs[hist[i]].detection.class_name : i \in 1..Len(hist)}
    IN  [lat |-> cs.lat,
         stats |->
           [total_alerts |-> Len(hist),
            alerts_by_class |-> [c \in classes |->
                Cardinality({i \in 1..Len(hist) :
                                evs[hist[i]].detection.class_name = c})],
            last_24h_alerts |->
                Cardinality({i \in 1..Len(hist) :
                                t - evs[hist[i]].created_at <= timedelta_hours(24)}),
            cooldown_status |-> cs.status]]

\* cleanup_old_alerts: the list comprehension over alert_history
RECURSIVE cleanup_inclusive(_, _, _, _)
cleanup_inclusive(hist, evs, retention_days, t) ==
    IF hist = <<>> THEN <<>>
    ELSE LET cutoff_date == t - timedelta_days(retention_days)
             rest == cleanup_inclusive(Tail(hist), evs, retention_days, t)
         IN  IF evs[Head(hist)].created_at >= cutoff_date
             THEN <<Head(hist)>> \o rest
             ELSE rest

RECURSIVE cleanup_old_alerts(_, _, _, _)
cleanup_old_alerts(hist, evs, retention_days, t) ==
    IF hist = <<>> THEN <<>>
    ELSE LET cutoff_date == t - timedelta_days(retention_days)
             rest == cleanup_old_alerts(Tail(hist), evs, retention_days, t)
         IN  IF evs[Head(hist)].created_at > cutoff_date
             THEN <<Head(hist)>> \o rest
             ELSE rest

\* ---------------------------------------------- notification_service.py
\* _initialize_channels: a channel exists when it is enabled and its
\* notifications.<name> section is non-empty; dict order is insertion order.
RECURSIVE InitChannelsFrom(_, _, _)
InitChannelsFrom(i, enabled, configured) ==
    IF i > Len(ChannelOrder) THEN <<>>
    ELSE (IF ChannelOrder[i] \in enabled /\ ChannelOrder[i] \in configured
          THEN <<ChannelOrder[i]>> ELSE <<>>)
         \o InitChannelsFrom(i + 1, enabled, configured)

_initialize_channels(enabled, configured) == InitChannelsFrom(1, enabled, configured)

\* NotificationService.send_alert: the loop over self.channels.items(), from
\* position i on, with the results and attempts accumulated so far.
RECURSIVE notify_abort_on_raise(_, _, _, _, _)
notify_abort_on_raise(chs, outcome, i, results, attempts) ==
    IF i > Len(chs) THEN [results |-> results, attempts |-> attempts]
    ELSE IF outcome[chs[i]] = "raise"
         THEN [results |-> results, attempts |-> Append(attempts, chs[i])]
         ELSE notify_abort_on_raise(chs, outcome, i + 1,
                  [k \in DOMAIN results \cup {chs[i]} |->
                      IF k = chs[i] THEN outcome[chs[i]] = "ok" ELSE results[k]],
                  Append(attempts, chs[i]))

RECURSIVE notify_send_alert(_, _, _, _, _)
notify_send_alert(chs, outcome, i, results, attempts) ==
    IF i > Len(chs) THEN [results |-> results, attempts |-> attempts]
    ELSE notify_send_alert(chs, outcome, i + 1,
             [k \in DOMAIN results \cup {chs[i]} |->
                 IF k = chs[i]
                 THEN (IF outcome[chs[i]] = "raise" THEN FALSE
                       ELSE outcome[chs[i]] = "ok")
                 ELSE results[k]],
             Append(attempts, chs[i]))

\* ---------------------------------------------------------- database.py
DetectionRecord(id, detection, image_path, alert_sent, t) ==
    [id |-> id, class_name |-> detection.class_name,
     timestamp |-> detection.timestamp, image_path |-> image_path,
     alert_sent |-> alert_sent,
     alert_sent_at |-> IF alert_sent THEN t ELSE NullTime,
     det |-> detection.serial]

\* INTEGER PRIMARY KEY of SQLite: one more than the largest id in the table
NextId(rows) == IF rows = <<>> THEN 1
                ELSE SetMax({rows[i].id : i \in 1..Len(rows)}) + 1

\* save_detection; ok = FALSE is the except branch (rollback, logged)
save_detection(rows, detection, image_path, alert_sent, t, ok) ==
    IF ok THEN Append(rows, DetectionRecord(NextId(rows), detection,
                                            image_path, alert_sent, t))
    ELSE rows

\* update_alert_status; ok = FALSE is the except branch
update_alert_status(rows, detection_id, t, ok) ==
    IF ok
    THEN [i \in 1..Len(rows) |->
            IF rows[i].id = detection_id
            THEN [rows[i] EXCEPT !.alert_sent = TRUE, !.alert_sent_at = t]
            ELSE rows[i]]
    ELSE rows

\* --------------------------------------------------------------- main.py
all_results(results) == \A k \in DOMAIN results : results[k]

\* success = any(results.values())
any_results(results) == \E k \in DOMAIN results : results[k]

\* RodentDetectionSystem.send_alert raises AttributeError when it evaluates
\* alert_event.detection.id on an object without that attribute.
send_alert_raises(e, results) ==
    any_results(results) /\ ~HasAttr(events[e].detection, "id")

\* RodentDetectionSystem.send_alert(e) with the given channel behaviour
send_alert(e, outcome, dbok) ==
    LET r == notify_send_alert(channels, outcome, 1, EmptyMap, <<>>)
        m == mark_alert_sent(events, alert_history, e, now)
    IN  /\ last_results' = r.results
        /\ UNCHANGED <<last_attempts, last_outcomes>>
        /\ sent_count' = [sent_count EXCEPT ![e] = @ + 1]
        /\ IF any_results(r.results)
           THEN /\ events' = m.events
                /\ alert_history' = m.history
                /\ IF HasAttr(events[e].detection, "id")
                   THEN db' = update_alert_status(db, events[e].detection.id, now, dbok)
                   ELSE db' = db
           ELSE UNCHANGED <<events, alert_history, db>>

\* ----------------------------------------------------------------- Init
SpecEnabled == {{}, {"sms", "email"}}

NoCall == [n |-> 0, cls |-> "none", at |-> 0, done |-> 0, result |-> None,
           prev |-> NullTime, active |-> FALSE]

\* AlertLogicEngine.__init__
InitEngine ==
    /\ last_alert_times = EmptyMap
    /\ pending_alerts = <<>>
    /\ alert_history = <<>>
    /\ events = <<>>
    /\ lastcall = NoCall
    /\ prevcall = NoCall
    /\ created_times = [c \in ClassNames |-> {}]
    /\ sent_count = <<>>

\* RodentDetectionSystem.__init__, before run()
InitTasks ==
    /\ running = FALSE
    /\ fp_pc = "new"
    /\ frame = <<>>
    /\ alert_event = None
    /\ ndets = 0
    /\ ap_pc = "new"
    /\ ap_alert = None

NoOp == [op |-> "none"]

InitShutdownVars ==
    /\ mt_pc = "new"
    /\ hc_pc = "new"
    /\ run_pc = "new"
    /\ src_mode = "none"

InitRtspVars ==
    /\ source_kind = "none"
    /\ rtsp_pc = "new"
    /\ src_up = FALSE
    /\ sleep_left = 0
    /\ since_frame = 0
    /\ waited = 0
    /\ last_fail = "none"
    /\ yields_since_fail = 0
    /\ since_yield = NullTime

InitSdVars ==
    /\ sd_pc = "new"
    /\ sd_files = EmptyMap
    /\ processed_files = {}
    /\ new_files = <<>>
    /\ video_file = None
    /\ frame_count = 0
    /\ frame_skip = 0
    /\ sd_scan = 0
    /\ sd_time = 0
    /\ delivered = <<>>

InitNmsVars ==
    /\ nms_pc = "new"
    /\ nms_in = <<>>
    /\ iou_threshold = [num |-> 0, den |-> 1]
    /\ nms_by = "none"
    /\ nms_out = <<>>

InitCdVars ==
    /\ cd_pc = "new"
    /\ cd_last = 0
    /\ cd_now = 0
    /\ cd_status = <<>>
    /\ cd_send = <<>>

InitClVars ==
    /\ image_files = {}
    /\ cl_last = <<>>

InitDpVars ==
    /\ dp_pc = "new"
    /\ dp_pending = 0
    /\ dp_i = 0
    /\ dp_results = EmptyMap
    /\ dp_blocking = "none"
    /\ dp_done = 0

InitDecVars ==
    /\ dec_pc = "new"
    /\ dec_rows = 0
    /\ dec_anchors = <<>>
    /\ conf_threshold = 0
    /\ frame_shape = <<0, 0>>
    /\ dec_out = <<>>

InitAuxVars ==
    /\ InitCdVars
    /\ InitClVars
    /\ InitDpVars
    /\ InitDecVars

InitExt ==
    /\ last_op = NoOp
    /\ InitShutdownVars
    /\ InitRtspVars
    /\ InitSdVars
    /\ InitNmsVars
    /\ InitAuxVars

InitNotifyObs ==
    /\ InitExt
    /\ last_results = EmptyMap
    /\ last_attempts = <<>>
    /\ last_outcomes = EmptyMap

Init ==
    /\ now = 0
    /\ InitEngine
    /\ InitTasks
    /\ InitNotifyObs
    /\ \E en \in SpecEnabled :
          channels = _initialize_channels(en, {"sms", "email", "emailjs", "push"})
    /\ db = <<>>

\* -------------------------------------------------------------- actions
\* run(): running = True, then _run_async creates the tasks
Run ==
    /\ fp_pc = "new"
    /\ running' = TRUE
    /\ fp_pc' = "idle"
    /\ ap_pc' = "loop"
    /\ UNCHANGED <<now, engine_vars, channels, ext_vars, db, frame, alert_event,
                   ndets, ap_alert, pd_obs, sent_count, notify_obs>>

\* _signal_handler
Signal ==
    /\ running
    /\ running' = FALSE
    /\ UNCHANGED <<now, engine_vars, channels, ext_vars, db, fp_vars, ap_vars, pd_obs,
                   sent_count, notify_obs>>

\* The event loop runs one task at a time; the frame processor yields only
\* in `await asyncio.sleep(0.01)`, i.e. between frames.
LoopFree == fp_pc \notin {"detect", "send", "next"}

\* the wall clock advances (between frames)
Tick ==
    /\ now < MaxTime
    /\ LoopFree
    /\ now' = now + 1
    /\ UNCHANGED <<running, engine_vars, channels, ext_vars, db, fp_vars, ap_vars,
                   pd_obs, sent_count, notify_obs>>

\* _frame_processor: the next (frame, timestamp) of get_frames, the running
\* check, and detect() on the frame
FP_GetFrame ==
    /\ fp_pc = "idle"
    /\ IF ~running
       THEN /\ fp_pc' = "done"
            /\ UNCHANGED <<frame, ndets>>
       ELSE \E classes \in SeqsUpTo(ClassNames, MaxDetections - ndets) :
               /\ frame' = [i \in 1..Len(classes) |->
                               Detection(classes[i], now, ndets + i)]
               /\ ndets' = ndets + Len(classes)
               /\ fp_pc' = IF classes = <<>> THEN "idle" ELSE "detect"
    /\ UNCHANGED <<now, running, engine_vars, channels, ext_vars, db, alert_event,
                   ap_vars, pd_obs, sent_count, notify_obs>>

\* _frame_processor: get_frames is exhausted
FP_End ==
    /\ fp_pc = "idle"
    /\ fp_pc' = "done"
    /\ UNCHANGED <<now, running, engine_vars, channels, ext_vars, db, frame, alert_event,
                   ndets, ap_vars, pd_obs, sent_count, notify_obs>>

\* process_frame, loop body up to `if alert_event`: save_detection_image,
\* save_detection, process_detection
FP_Detect ==
    /\ fp_pc = "detect"
    /\ LET detection == Head(frame)
           image_path == now
           r == process_detection(last_alert_times, pending_alerts, events,
                                  detection, image_path, now, now, now)
       IN  /\ db' = save_detection(db, detection, image_path, FALSE, now, TRUE)
           /\ last_alert_times' = r.lat
           /\ pending_alerts' = r.queue
           /\ events' = r.events
           /\ sent_count' = IF Len(r.events) = Len(events) THEN sent_count
                            ELSE Append(sent_count, 0)
           /\ alert_event' = r.result
           /\ IF r.result = None
              THEN /\ frame' = Tail(frame)
                   /\ fp_pc' = IF Tail(frame) = <<>> THEN "idle" ELSE "detect"
              ELSE /\ frame' = frame
                   /\ fp_pc' = "send"
    /\ UNCHANGED <<now, running, alert_history, channels, ext_vars, ndets, ap_vars,
                   pd_obs, notify_obs>>

\* process_frame: `await self.send_alert(alert_event)`; an exception leaves
\* process_frame and is logged by _frame_processor, which abandons the frame
FP_Send ==
    /\ fp_pc = "send"
    /\ \E outcome \in [{channels[i] : i \in 1..Len(channels)} -> Outcomes] :
        /\ send_alert(alert_event, outcome, TRUE)
        /\ IF send_alert_raises(alert_event,
                 notify_send_alert(channels, outcome, 1, EmptyMap, <<>>).results)
           THEN /\ frame' = <<>>
                /\ fp_pc' = "idle"
           ELSE /\ frame' = Tail(frame)
                /\ fp_pc' = IF Tail(frame) = <<>> THEN "idle" ELSE "detect"
    /\ UNCHANGED <<now, running, last_alert_times, pending_alerts, channels, ext_vars,
                   alert_event, ndets, ap_vars, pd_obs>>

\* alert_processor: the `while self.running` test and get_pending_alert
AP_Get ==
    /\ ap_pc = "loop"
    /\ LoopFree
    /\ IF ~running
       THEN /\ ap_pc' = "done"
            /\ UNCHANGED <<pending_alerts, ap_alert>>
       ELSE LET g == get_pending_alert(pending_alerts)
            IN  IF g.alert # None
                THEN /\ ap_alert' = g.alert
                     /\ pending_alerts' = g.queue
                     /\ ap_pc' = "send"
                ELSE UNCHANGED <<pending_alerts, ap_alert, ap_pc>>
    /\ UNCHANGED <<now, running, last_alert_times, alert_history, events,
                   channels, ext_vars, db, fp_vars, pd_obs, sent_count, notify_obs>>

\* alert_processor: `await self.send_alert(alert_event)`; an exception ends
\* the task
AP_Send ==
    /\ ap_pc = "send"
    /\ LoopFree
    /\ \E outcome \in [{channels[i] : i \in 1..Len(channels)} -> Outcomes] :
        /\ send_alert(ap_alert, outcome, TRUE)
        /\ ap_pc' = IF send_alert_raises(ap_alert,
                          notify_send_alert(channels, outcome, 1, EmptyMap, <<>>).results)
                    THEN "failed" ELSE "loop"
    /\ UNCHANGED <<now, running, last_alert_times, pending_alerts, channels, ext_vars,
                   fp_vars, ap_alert, pd_obs>>

\* _run_async / run: gather re-raises the task's exception, asyncio.run
\* cancels the remaining tasks
RunAsyncFail ==
    /\ ap_pc = "failed"
    /\ fp_pc = "idle"
    /\ fp_pc' = "cancelled"
    /\ UNCHANGED <<now, running, engine_vars, channels, ext_vars, db, frame, alert_event,
                   ndets, ap_vars, pd_obs, sent_count, notify_obs>>

Next ==
    \/ Run
    \/ Signal
    \/ Tick
    \/ FP_GetFrame
    \/ FP_End
    \/ FP_Detect
    \/ FP_Send
    \/ AP_Get
    \/ AP_Send
    \/ RunAsyncFail

Spec == Init /\ [][Next]_vars

\* ------------------------------------------- the alert engine on its own
\* An AlertLogicEngine driven through its methods by an arbitrary caller.
InitEngineSpec ==
    /\ now = 0
    /\ InitEngine
    /\ InitTasks
    /\ InitNotifyObs
    /\ channels = <<>>
    /\ db = <<>>

non_engine_vars == <<running, channels, ext_rest, db, fp_vars, ap_vars, sent_count, notify_obs>>

EngTick ==
    /\ now < EngMaxTime
    /\ now' = now + 1
    /\ last_op' = NoOp
    /\ UNCHANGED <<engine_vars, pd_obs, non_engine_vars>>

\* a call of process_detection; the clock may advance by d1 up to
\* AlertEvent.__init__ and by d2 up to update_last_alert_time
EngProcessDetection ==
    /\ lastcall.n < MaxCalls
    /\ \E cls \in ClassNames, d1 \in 0..MaxDelay, d2 \in 0..MaxDelay :
        LET detection == Detection(cls, now, lastcall.n + 1)
            r == process_detection(last_alert_times, pending_alerts, events,
                                   detection, now, now, now + d1, now + d2)
        IN  /\ d1 <= d2
            /\ now + d2 <= EngMaxTime
            /\ now' = now + d2
            /\ last_alert_times' = r.lat
            /\ pending_alerts' = r.queue
            /\ events' = r.events
            /\ alert_history' = alert_history
            /\ last_op' = NoOp
            /\ prevcall' = lastcall
            /\ lastcall' = [n |-> lastcall.n + 1,
                            cls |-> cls,
                            at |-> now, done |-> now + d2,
                            result |-> r.result,
                            prev |-> IF created_times[cls] = {} THEN NullTime
                                     ELSE SetMax(created_times[cls]),
                            active |-> now - LatGet(last_alert_times, cls)
                                         < cooldown_minutes]
            /\ created_times' =
                 IF r.result = None THEN created_times
                 ELSE [created_times EXCEPT ![cls] = @ \cup {now + d2}]
    /\ UNCHANGED non_engine_vars

\* a call of get_pending_alert; on an empty queue it times out
EngGetPending ==
    /\ pending_alerts # <<>>
    /\ pending_alerts' = get_pending_alert(pending_alerts).queue
    /\ last_op' = NoOp
    /\ UNCHANGED <<now, last_alert_times, alert_history, events, pd_obs,
                   non_engine_vars>>

\* a call of mark_alert_sent
EngMarkSent ==
    /\ Len(alert_history) < MaxHistory
    /\ \E e \in 1..Len(events) :
        LET m == mark_alert_sent(events, alert_history, e, now)
        IN  /\ events' = m.events
            /\ alert_history' = m.history
    /\ last_op' = NoOp
    /\ UNCHANGED <<now, last_alert_times, pending_alerts, pd_obs,
                   non_engine_vars>>

NextEngine ==
    \/ EngTick
    \/ EngProcessDetection
    \/ EngGetPending
    \/ EngMarkSent

SpecEngine == InitEngineSpec /\ [][NextEngine]_vars

\* ------------------------------------------------ start-up and shutdown
\* What get_frames is doing when the frame processor asks for the next
\* frame: yielding a frame, sleeping until new files appear (SD card),
\* sleeping before a reconnect (RTSP, Wyze-Bridge), or exhausted (local file)
SourceModes == {"frames", "waiting", "reconnecting", "exhausted"}

InitShutdown ==
    /\ now = 0
    /\ InitEngine
    /\ InitTasks
    /\ InitNotifyObs
    /\ channels = <<>>
    /\ db = <<>>

sh_rest == <<now, last_alert_times, alert_history, events, channels, last_op,
             rtsp_vars, sd_vars, nms_vars, aux_vars,
             db, frame, alert_event, ndets, ap_alert, pd_obs, sent_count,
             notify_obs>>

\* run() and _run_async: running = True and the four tasks are created
ShRun ==
    /\ run_pc = "new"
    /\ running' = TRUE
    /\ run_pc' = "gather"
    /\ fp_pc' = "next"
    /\ ap_pc' = "loop"
    /\ mt_pc' = "start"
    /\ hc_pc' = "start"
    /\ src_mode' \in SourceModes
    /\ UNCHANGED <<pending_alerts, sh_rest>>

\* the video source changes what it is doing (files arrive, the camera
\* drops or comes back, the file ends)
SourceChange ==
    /\ run_pc = "gather"
    /\ src_mode # "exhausted"
    /\ src_mode' \in SourceModes \ {src_mode}
    /\ UNCHANGED <<running, pending_alerts, fp_pc, ap_pc, mt_pc, hc_pc, run_pc,
                   sh_rest>>

\* _signal_handler, at any moment of the run
ShSignal ==
    /\ run_pc = "gather"
    /\ Signal

\* _frame_processor: one step of the synchronous generator get_frames and,
\* when it yields, the loop body (a frame without detections).  While the
\* source sleeps inside get_frames the frame processor stays in the call
\* and the event loop runs no other task.
FP_Next ==
    /\ fp_pc = "next"
    /\ fp_pc' = CASE src_mode = "frames" -> IF running THEN "sleep" ELSE "done"
                  [] src_mode = "exhausted" -> "done"
                  [] OTHER -> "next"
    /\ UNCHANGED <<running, pending_alerts, ap_pc, mt_pc, hc_pc, run_pc,
                   src_mode, sh_rest>>

\* _frame_processor: `await asyncio.sleep(0.01)` is over
FP_Wake ==
    /\ fp_pc = "sleep"
    /\ fp_pc' = "next"
    /\ UNCHANGED <<running, pending_alerts, ap_pc, mt_pc, hc_pc, run_pc,
                   src_mode, sh_rest>>

\* alert_processor, with an empty queue: the loop test and the timed-out
\* get_pending_alert
ShAlertProcessor ==
    /\ run_pc = "gather"
    /\ AP_Get

\* maintenance_task: the task's first run, up to `await asyncio.sleep(3600)`
MT_Start ==
    /\ mt_pc = "start"
    /\ LoopFree
    /\ mt_pc' = IF running THEN "sleep" ELSE "done"
    /\ UNCHANGED <<running, pending_alerts, fp_pc, ap_pc, hc_pc, run_pc,
                   src_mode, sh_rest>>

\* maintenance_task: asyncio.sleep(3600) is over; the clean-up runs inside
\* try/except (nothing to clean here), then the `while self.running` test
MT_Wake ==
    /\ mt_pc = "sleep"
    /\ LoopFree
    /\ mt_pc' = IF running THEN "sleep" ELSE "done"
    /\ UNCHANGED <<running, pending_alerts, fp_pc, ap_pc, hc_pc, run_pc,
                   src_mode, sh_rest>>

\* health_check: the task's first run, up to `await asyncio.sleep(check_interval)`
HC_Start ==
    /\ hc_pc = "start"
    /\ LoopFree
    /\ hc_pc' = IF running THEN "sleep" ELSE "done"
    /\ UNCHANGED <<running, pending_alerts, fp_pc, ap_pc, mt_pc, run_pc,
                   src_mode, sh_rest>>

\* health_check: asyncio.sleep(check_interval) is over; the statistics are
\* logged, then the `while self.running` test
HC_Wake ==
    /\ hc_pc = "sleep"
    /\ LoopFree
    /\ hc_pc' = IF running THEN "sleep" ELSE "done"
    /\ UNCHANGED <<running, pending_alerts, fp_pc, ap_pc, mt_pc, run_pc,
                   src_mode, sh_rest>>

\* asyncio.gather completes when the four tasks have finished; run() returns
ShReturn ==
    /\ run_pc = "gather"
    /\ fp_pc = "done" /\ ap_pc = "done" /\ mt_pc = "done" /\ hc_pc = "done"
    /\ run_pc' = "returned"
    /\ UNCHANGED <<running, pending_alerts, fp_pc, ap_pc, mt_pc, hc_pc,
                   src_mode, sh_rest>>

NextShutdown ==
    \/ ShRun
    \/ SourceChange
    \/ ShSignal
    \/ FP_Next
    \/ FP_Wake
    \/ ShAlertProcessor
    \/ MT_Start
    \/ MT_Wake
    \/ HC_Start
    \/ HC_Wake
    \/ ShReturn

\* Every task that the event loop can run eventually runs, every timed
\* sleep ends, and get_frames does not forever miss a source that is ready
\* again and again; nothing is assumed of the signal or of the video source.
SpecShutdown ==
    /\ InitShutdown
    /\ [][NextShutdown]_vars
    /\ WF_vars(ShRun)
    /\ SF_vars(FP_Next)
    /\ WF_vars(FP_Wake)
    /\ WF_vars(ShAlertProcessor)
    /\ WF_vars(MT_Start)
    /\ WF_vars(MT_Wake)
    /\ WF_vars(HC_Start)
    /\ WF_vars(HC_Wake)
    /\ WF_vars(ShReturn)

\* ------------------------------------- the stream sources' get_frames
\* WyzeRTSPSource and WyzeBridgeSource; time in seconds
reconnect_delay == 5
frame_rate == 1
frame_interval == 1 \div frame_rate

Min(a, b) == IF a <= b THEN a ELSE b

\* get_frames: the except branch logs and sleeps, then the loop goes on
except_reraises(delay) == [pc |-> "ended", sleep_left |-> 0]

except_handler(delay) == [pc |-> "sleep", sleep_left |-> delay]

\* d more seconds on the time since the previous yield, if there was one
elapse(since, d) ==
    IF since = NullTime THEN NullTime ELSE Min(since + d, frame_interval)

rtsp_rest == <<now, running, engine_vars, channels, last_op, sh_vars, sd_vars,
               nms_vars, aux_vars, db,
               fp_vars, ap_vars, pd_obs, sent_count, notify_obs>>

InitRtsp ==
    /\ now = 0
    /\ InitEngine
    /\ InitTasks
    /\ last_results = EmptyMap
    /\ last_attempts = <<>>
    /\ last_outcomes = EmptyMap
    /\ last_op = NoOp
    /\ InitShutdownVars
    /\ InitSdVars
    /\ InitNmsVars
    /\ InitAuxVars
    /\ channels = <<>>
    /\ db = <<>>
    /\ source_kind \in {"WyzeRTSPSource", "WyzeBridgeSource"}
    /\ rtsp_pc = "start"
    /\ src_up \in BOOLEAN
    /\ sleep_left = 0
    /\ since_frame = 0
    /\ waited = 0
    /\ last_fail = "none"
    /\ yields_since_fail = 0
    /\ since_yield = NullTime

\* the camera stream goes away or comes back
RtspSourceChange ==
    /\ src_up' = ~src_up
    /\ UNCHANGED <<source_kind, rtsp_pc, sleep_left, since_frame, waited,
                   last_fail, yields_since_fail, since_yield, rtsp_rest>>

\* _stream_frames / _stream_rtsp up to the read loop: cv2.VideoCapture and
\* isOpened; a failed open raises into get_frames' except branch.  With
\* last_frame_time = 0 the first frame read is due at once.
RtspOpen ==
    /\ rtsp_pc = "start"
    /\ IF src_up
       THEN /\ rtsp_pc' = "read"
            /\ since_frame' = frame_interval
            /\ UNCHANGED <<sleep_left, waited, last_fail, yields_since_fail>>
       ELSE /\ rtsp_pc' = except_handler(reconnect_delay).pc
            /\ sleep_left' = except_handler(reconnect_delay).sleep_left
            /\ waited' = 0
            /\ last_fail' = "open"
            /\ yields_since_fail' = 0
            /\ UNCHANGED since_frame
    /\ UNCHANGED <<source_kind, src_up, since_yield, rtsp_rest>>

\* a second of time.sleep(reconnect_delay) passes
RtspSleep ==
    /\ rtsp_pc = "sleep"
    /\ sleep_left' = Max(sleep_left - 1, 0)
    /\ waited' = waited + 1
    /\ rtsp_pc' = IF sleep_left <= 1 THEN "start" ELSE "sleep"
    /\ since_yield' = elapse(since_yield, 1)
    /\ UNCHANGED <<source_kind, src_up, since_frame, last_fail,
                   yields_since_fail, rtsp_rest>>

\* cap.read(), taking d seconds: a failed read leaves the read loop and
\* _stream_frames returns, so get_frames opens the stream again at once; a
\* frame is yielded when frame_interval has passed since last_frame_time.
\* In the state "yielded" since_yield is the time between this yield and
\* the one before it.
RtspRead ==
    /\ rtsp_pc = "read"
    /\ IF ~src_up
       THEN /\ rtsp_pc' = "start"
            /\ waited' = 0
            /\ last_fail' = "read"
            /\ yields_since_fail' = 0
            /\ UNCHANGED <<since_frame, since_yield>>
       ELSE \E d \in 0..1 :
            /\ since_frame' = Min(since_frame + d, frame_interval)
            /\ since_yield' = elapse(since_yield, d)
            /\ IF since_frame + d >= frame_interval
               THEN /\ rtsp_pc' = "yielded"
                    /\ yields_since_fail' = Min(yields_since_fail + 1, MaxYields)
               ELSE UNCHANGED <<rtsp_pc, yields_since_fail>>
            /\ UNCHANGED <<waited, last_fail>>
    /\ UNCHANGED <<source_kind, src_up, sleep_left, rtsp_rest>>

\* the consumer asks for the next frame d seconds after the yield:
\* last_frame_time = current_time
RtspResume ==
    /\ rtsp_pc = "yielded"
    /\ rtsp_pc' = "read"
    /\ \E d \in 0..1 :
          /\ since_frame' = Min(d, frame_interval)
          /\ since_yield' = Min(d, frame_interval)
    /\ UNCHANGED <<source_kind, src_up, sleep_left, waited, last_fail,
                   yields_since_fail, rtsp_rest>>

NextRtsp ==
    \/ RtspSourceChange
    \/ RtspOpen
    \/ RtspSleep
    \/ RtspRead
    \/ RtspResume

\* The generator is driven by a consumer that keeps asking for frames, and
\* time passes; nothing is assumed of the camera.
SpecRtsp ==
    /\ InitRtsp
    /\ [][NextRtsp]_vars
    /\ WF_vars(RtspOpen)
    /\ WF_vars(RtspSleep)
    /\ WF_vars(RtspRead)
    /\ WF_vars(RtspResume)

\* --------------------------------------- the SD-card source's get_frames
\* find_video_files: the files sorted by st_mtime, reverse=True.  A file is
\* named by its st_mtime; the camera closes one file before the next.
RECURSIVE sort_oldest_first(_)
sort_oldest_first(files) ==
    IF files = {} THEN <<>>
    ELSE LET oldest == CHOOSE f \in files : \A g \in files : f <= g
         IN  <<oldest>> \o sort_oldest_first(files \ {oldest})

RECURSIVE find_video_files(_)
find_video_files(files) ==
    IF files = {} THEN <<>>
    ELSE LET newest == SetMax(files)
         IN  <<newest>> \o find_video_files(files \ {newest})

sd_rest == <<now, running, engine_vars, channels, last_op, sh_vars, rtsp_vars,
             nms_vars, aux_vars,
             db, fp_vars, ap_vars, pd_obs, sent_count, notify_obs>>

InitSd ==
    /\ now = 0
    /\ InitEngine
    /\ InitTasks
    /\ last_results = EmptyMap
    /\ last_attempts = <<>>
    /\ last_outcomes = EmptyMap
    /\ last_op = NoOp
    /\ InitShutdownVars
    /\ InitRtspVars
    /\ InitNmsVars
    /\ InitAuxVars
    /\ channels = <<>>
    /\ db = <<>>
    /\ sd_pc = "scan"
    /\ sd_files = EmptyMap
    /\ processed_files = {}
    /\ new_files = <<>>
    /\ video_file = None
    /\ frame_count = 0
    /\ frame_skip \in 1..MaxFrameSkip
    /\ sd_scan = 0
    /\ sd_time = 0
    /\ delivered = <<>>

\* the camera finishes recording another file
SdRecord ==
    /\ Cardinality(DOMAIN sd_files) < MaxFiles
    /\ \E n \in 1..MaxFileFrames :
          sd_files' = [f \in DOMAIN sd_files \cup {Cardinality(DOMAIN sd_files) + 1} |->
                          IF f \in DOMAIN sd_files THEN sd_files[f] ELSE n]
    /\ UNCHANGED <<sd_pc, processed_files, new_files, video_file, frame_count,
                   frame_skip, sd_scan, sd_time, delivered, sd_rest>>

\* get_frames: find_video_files and the new_files filter; with no new file
\* it sleeps and scans again
SdScan ==
    /\ sd_pc = "scan"
    /\ LET video_files == find_video_files(DOMAIN sd_files)
           found == SelectSeq(video_files, LAMBDA f : f \notin processed_files)
       IN  IF found = <<>>
           THEN UNCHANGED <<sd_pc, new_files, sd_scan>>
           ELSE /\ new_files' = found
                /\ sd_scan' = sd_scan + 1
                /\ sd_pc' = "file"
    /\ UNCHANGED <<sd_files, processed_files, video_file, frame_count,
                   frame_skip, sd_time, delivered, sd_rest>>

\* get_frames: the next video_file of new_files and the open in
\* _process_video_file; a file that cannot be opened is logged and counted
\* as processed
SdOpenFile ==
    /\ sd_pc = "file"
    /\ IF new_files = <<>>
       THEN /\ sd_pc' = "scan"
            /\ UNCHANGED <<new_files, processed_files, video_file, frame_count>>
       ELSE \E opened \in BOOLEAN :
            IF opened
            THEN /\ video_file' = Head(new_files)
                 /\ frame_count' = 0
                 /\ sd_pc' = "read"
                 /\ UNCHANGED <<new_files, processed_files>>
            ELSE /\ processed_files' = processed_files \cup {Head(new_files)}
                 /\ new_files' = Tail(new_files)
                 /\ UNCHANGED <<sd_pc, video_file, frame_count>>
    /\ UNCHANGED <<sd_files, frame_skip, sd_scan, sd_time, delivered, sd_rest>>

\* _process_video_file: cap.read(); at the end of the file the generator
\* returns and the file is added to processed_files; every frame_skip-th
\* frame is yielded with timestamp time.time()
SdRead ==
    /\ sd_pc = "read"
    /\ sd_time' = sd_time + 1
    /\ IF frame_count = sd_files[video_file]
       THEN /\ processed_files' = processed_files \cup {video_file}
            /\ new_files' = Tail(new_files)
            /\ sd_pc' = "file"
            /\ UNCHANGED <<frame_count, delivered>>
       ELSE /\ IF frame_count % frame_skip = 0
               THEN /\ delivered' = Append(delivered,
                                          [file |-> video_file, index |-> frame_count,
                                           scan |-> sd_scan, timestamp |-> sd_time'])
                    /\ sd_pc' = "yielded"
                    /\ UNCHANGED frame_count
               ELSE /\ frame_count' = frame_count + 1
                    /\ UNCHANGED <<sd_pc, delivered>>
            /\ UNCHANGED <<processed_files, new_files>>
    /\ UNCHANGED <<sd_files, video_file, frame_skip, sd_scan, sd_rest>>

\* the consumer asks for the next frame: frame_count += 1
SdResume ==
    /\ sd_pc = "yielded"
    /\ frame_count' = frame_count + 1
    /\ sd_pc' = "read"
    /\ UNCHANGED <<sd_files, processed_files, new_files, video_file, frame_skip,
                   sd_scan, sd_time, delivered, sd_rest>>

NextSd ==
    \/ SdRecord
    \/ SdScan
    \/ SdOpenFile
    \/ SdRead
    \/ SdResume

SpecSd == InitSd /\ [][NextSd]_vars

\* ------------------------------------------ the test scripts' apply_nms
\* A detection is [bbox, confidence, class_id]; bbox is <<x1, y1, x2, y2>>
\* in pixels, confidence is in tenths.  An IoU and a threshold are exact
\* fractions [num, den], den > 0: with pixel-sized integers the float
\* quotient inter_area / union_area compares with the threshold as the
\* exact fraction does.
Fraction(n, d) == [num |-> n, den |-> d]

\* CorrectedRodentTester.calculate_iou
calculate_iou(box1, box2) ==
    LET inter_xmin == Max(box1[1], box2[1])
        inter_ymin == Max(box1[2], box2[2])
        inter_xmax == Min(box1[3], box2[3])
        inter_ymax == Min(box1[4], box2[4])
        inter_area == (inter_xmax - inter_xmin) * (inter_ymax - inter_ymin)
        box1_area == (box1[3] - box1[1]) * (box1[4] - box1[2])
        box2_area == (box2[3] - box2[1]) * (box2[4] - box2[2])
        union_area == box1_area + box2_area - inter_area
    IN  IF inter_xmax <= inter_xmin \/ inter_ymax <= inter_ymin
        THEN Fraction(0, 1)
        ELSE IF union_area > 0 THEN Fraction(inter_area, union_area)
             ELSE Fraction(0, 1)

\* VideoDetectionTester.calculate_iou
calculate_iou_vdt(box1, box2) ==
    LET inter_xmin == Max(box1[1], box2[1])
        inter_ymin == Max(box1[2], box2[2])
        inter_xmax == Min(box1[3], box2[3])
        inter_ymax == Min(box1[4], box2[4])
        inter_area == (inter_xmax - inter_xmin) * (inter_ymax - inter_ymin)
        box1_area == (box1[3] - box1[1]) * (box1[4] - box1[2])
        box2_area == (box2[3] - box2[1]) * (box2[4] - box2[2])
        union_area == box1_area + box2_area - inter_area
    IN  IF inter_xmax < inter_xmin \/ inter_ymax < inter_ymin
        THEN Fraction(0, 1)
        ELSE IF union_area > 0 THEN Fraction(inter_area, union_area)
             ELSE Fraction(0, 1)

\* `calculate_iou(...) < self.iou_threshold`
iou_not_above(iou, thr) == iou.num * thr.den <= thr.num * iou.den

iou_below(iou, thr) == iou.num * thr.den < thr.num * iou.den

\* sorted(detections, key=confidence, reverse=True): stable, so equal
\* confidences keep their input order
input_order(detections) == detections

RECURSIVE sorted_by_confidence(_)
sorted_by_confidence(detections) ==
    IF detections = <<>> THEN <<>>
    ELSE LET best == CHOOSE i \in 1..Len(detections) :
                        /\ \A j \in 1..Len(detections) :
                              detections[j].confidence <= detections[i].confidence
                        /\ \A j \in 1..(i - 1) :
                              detections[j].confidence < detections[i].confidence
             rest == [k \in 1..(Len(detections) - 1) |->
                         IF k < best THEN detections[k] ELSE detections[k + 1]]
         IN  <<detections[best]>> \o sorted_by_confidence(rest)

\* CorrectedRodentTester.apply_nms: the while loop
RECURSIVE nms_loop(_, _, _)
nms_loop(detections, keep, thr) ==
    IF detections = <<>> THEN keep
    ELSE LET current == Head(detections)
         IN  nms_loop(SelectSeq(Tail(detections),
                                LAMBDA d : iou_below(calculate_iou(current.bbox, d.bbox), thr)),
                      Append(keep, current), thr)

\* CorrectedRodentTester.apply_nms (class-agnostic)
apply_nms(detections, thr) ==
    IF detections = <<>> THEN detections
    ELSE nms_loop(sorted_by_confidence(detections), <<>>, thr)

\* VideoDetectionTester.apply_nms: the while loop
RECURSIVE nms_loop_vdt(_, _, _)
nms_loop_vdt(detections, keep, thr) ==
    IF detections = <<>> THEN keep
    ELSE LET current == Head(detections)
         IN  nms_loop_vdt(SelectSeq(Tail(detections),
                                    LAMBDA d :
                                       \/ iou_below(calculate_iou_vdt(current.bbox, d.bbox), thr)
                                       \/ current.class_id # d.class_id),
                          Append(keep, current), thr)

\* VideoDetectionTester.apply_nms (class-aware)
apply_nms_vdt(detections, thr) ==
    IF Len(detections) <= 1 THEN detections
    ELSE nms_loop_vdt(sorted_by_confidence(detections), <<>>, thr)

\* the inputs: boxes that overlap by 3/5, 1/2 and 1/3, that touch and that
\* are apart; two confidences; the two classes; thresholds at, between and
\* off the IoU values (0.45 is the testers' setting)
NmsBoxes == {<<0, 0, 4, 1>>, <<1, 0, 5, 1>>, <<0, 0, 2, 2>>, <<0, 0, 1, 2>>,
             <<2, 0, 4, 2>>, <<0, 1, 4, 2>>}
NmsConfidences == {8, 9}
NmsClassIds == {0, 1}
NmsThresholds == {Fraction(45, 100), Fraction(1, 2), Fraction(1, 3)}
NmsDetections == [bbox : NmsBoxes, confidence : NmsConfidences, class_id : NmsClassIds]

nms_rest == <<now, running, engine_vars, channels, last_op, sh_vars, rtsp_vars,
              sd_vars, aux_vars, db, fp_vars, ap_vars, pd_obs, sent_count, notify_obs>>

InitNms ==
    /\ now = 0
    /\ InitEngine
    /\ InitTasks
    /\ last_results = EmptyMap
    /\ last_attempts = <<>>
    /\ last_outcomes = EmptyMap
    /\ last_op = NoOp
    /\ InitShutdownVars
    /\ InitRtspVars
    /\ InitSdVars
    /\ InitAuxVars
    /\ channels = <<>>
    /\ db = <<>>
    /\ nms_pc = "input"
    /\ nms_in \in SeqsUpTo(NmsDetections, MaxNmsLen)
    /\ iou_threshold \in NmsThresholds
    /\ nms_by = "none"
    /\ nms_out = <<>>

\* CorrectedRodentTester.apply_nms on the input
NmsApply ==
    /\ nms_pc = "input"
    /\ nms_out' = apply_nms(nms_in, iou_threshold)
    /\ nms_by' = "CorrectedRodentTester"
    /\ nms_pc' = "done"
    /\ UNCHANGED <<nms_in, iou_threshold, nms_rest>>

\* VideoDetectionTester.apply_nms on the input
NmsApplyVdt ==
    /\ nms_pc = "input"
    /\ nms_out' = apply_nms_vdt(nms_in, iou_threshold)
    /\ nms_by' = "VideoDetectionTester"
    /\ nms_pc' = "done"
    /\ UNCHANGED <<nms_in, iou_threshold, nms_rest>>

NextNms ==
    \/ NmsApply
    \/ NmsApplyVdt

SpecNms == InitNms /\ [][NextNms]_vars

\* ----------------------------------------- the cooldown seen on a fine clock
\* datetime.now() has microseconds; here the clock ticks CdTicksPerSecond
\* times a second, which is enough to tell a remaining cooldown in whole
\* seconds from one with a fraction
CdTicksPerSecond == 2
CdMaxLast == 2
CdMaxOffset == 3

CdCooldown == total_seconds(timedelta_minutes(cooldown_minutes)) * CdTicksPerSecond

\* elapsed times just after the alert and around the end of the cooldown
CdElapsed == (0..CdMaxOffset) \cup ((CdCooldown - CdMaxOffset)..(CdCooldown + CdMaxOffset))

base_vars == <<now, running, engine_vars, channels, db, fp_vars, ap_vars, pd_obs,
               sent_count, notify_obs, last_op, sh_vars, rtsp_vars, sd_vars, nms_vars>>

InitIdle ==
    /\ now = 0
    /\ InitEngine
    /\ InitTasks
    /\ last_results = EmptyMap
    /\ last_attempts = <<>>
    /\ last_outcomes = EmptyMap
    /\ last_op = NoOp
    /\ InitShutdownVars
    /\ InitRtspVars
    /\ InitSdVars
    /\ InitNmsVars
    /\ channels = <<>>
    /\ db = <<>>

cd_rest == <<base_vars, cl_vars, dp_vars, dec_vars>>

\* last_alert_times[C] is a time an alert was created at, or datetime.min
\* left by a lookup of the defaultdict
InitCooldown ==
    /\ InitIdle
    /\ InitClVars
    /\ InitDpVars
    /\ InitDecVars
    /\ cd_pc = "input"
    /\ \E e \in CdElapsed :
          \/ cd_last \in 0..CdMaxLast /\ cd_now = cd_last + e
          \/ cd_last = DatetimeMin /\ cd_now = e
    /\ cd_status = <<>>
    /\ cd_send = <<>>

\* get_alert_statistics -> _get_cooldown_status: the entry of class C
CdStatus ==
    /\ cd_pc = "input"
    /\ cd_status = <<>>
    /\ cd_status' = <<cooldown_entry(cd_last, cd_now, CdCooldown, 1, CdTicksPerSecond)>>
    /\ UNCHANGED <<cd_pc, cd_last, cd_now, cd_send, cd_rest>>

\* should_send_alert for class C at the same instant
CdDecide ==
    /\ cd_pc = "input"
    /\ cd_send = <<>>
    /\ cd_send' = <<cooldown_over(cd_last, cd_now, CdCooldown)>>
    /\ UNCHANGED <<cd_pc, cd_last, cd_now, cd_status, cd_rest>>

NextCooldown ==
    \/ CdStatus
    \/ CdDecide

SpecCooldown == InitCooldown /\ [][NextCooldown]_vars

\* ------------------------------------- database.py: cleanup_old_records
\* Unix time in ticks of half a second: DetectionRecord.timestamp is a
\* float, the image file name holds the second it was written in
RetTicksPerSecond == 2
SecondsPerDay == 86400
RetDay == SecondsPerDay * RetTicksPerSecond
RetMaxRows == 2
RetMaxTicks == 3
RetMaxDays == 2

\* save_detection_image: detection_%Y%m%d_%H%M%S.jpg
image_filename(t) == t \div RetTicksPerSecond

\* the old records, in table order
old_records(rows, cutoff_date) ==
    SelectSeq(rows, LAMBDA r : r.timestamp < cutoff_date)

Commits == 0 - 1

\* cleanup_old_records.  raised_after = Commits: no exception, the deletes
\* are committed.  raised_after = k: an exception after k records went
\* through the loop body (in the query for k = 0, in an unlink, or in
\* session.commit() for k = count); session.rollback() restores the rows,
\* the files unlinked so far stay unlinked.
cleanup_old_records(rows, files, t, retention_days, raised_after) ==
    LET cutoff_date == t - retention_days * RetDay
        old == old_records(rows, cutoff_date)
    IN  IF raised_after = Commits
        THEN [rows |-> SelectSeq(rows, LAMBDA r : ~(r.timestamp < cutoff_date)),
              files |-> files \ {old[k].image_path : k \in 1..Len(old)}]
        ELSE [rows |-> rows,
              files |-> files \ {old[k].image_path :
                                    k \in 1..Min(raised_after, Len(old))}]

ret_rest == <<running, engine_vars, channels, fp_vars, ap_vars, pd_obs, sent_count,
              notify_obs, last_op, sh_vars, rtsp_vars, sd_vars, nms_vars, cd_vars,
              dp_vars, dec_vars>>

InitRetention ==
    /\ InitIdle
    /\ InitCdVars
    /\ InitClVars
    /\ InitDpVars
    /\ InitDecVars

\* half a second passes
RetTick ==
    /\ now % RetDay < RetMaxTicks
    /\ now' = now + 1
    /\ cl_last' = <<>>
    /\ UNCHANGED <<db, image_files, ret_rest>>

\* a day passes
RetNextDay ==
    /\ now \div RetDay < RetMaxDays
    /\ now' = now + RetDay
    /\ cl_last' = <<>>
    /\ UNCHANGED <<db, image_files, ret_rest>>

\* process_frame for one detection of a frame read at this time:
\* save_detection_image writes the file, save_detection adds the row or
\* fails and rolls back
RetSave ==
    /\ Len(db) < RetMaxRows
    /\ \E ok \in BOOLEAN :
          db' = save_detection(db, Detection("norway_rat", now, NextId(db)),
                               image_filename(now), FALSE, now, ok)
    /\ image_files' = image_files \cup {image_filename(now)}
    /\ cl_last' = <<>>
    /\ UNCHANGED <<now, ret_rest>>

\* maintenance_task: cleanup_old_records(retention_days)
RetCleanup ==
    /\ \E retention_days \in 1..MaxRetentionDays,
          raised_after \in {Commits} \cup (0..Len(db)) :
          LET r == cleanup_old_records(db, image_files, now, retention_days,
                                       raised_after)
          IN  /\ raised_after # Commits =>
                    raised_after <= Len(old_records(db, now - retention_days * RetDay))
              /\ db' = r.rows
              /\ image_files' = r.files
              /\ cl_last' = <<[cutoff_date |-> now - retention_days * RetDay,
                               committed |-> raised_after = Commits,
                               rows |-> db, files |-> image_files]>>
    /\ UNCHANGED <<now, ret_rest>>

NextRetention ==
    \/ RetTick
    \/ RetNextDay
    \/ RetSave
    \/ RetCleanup

SpecRetention == InitRetention /\ [][NextRetention]_vars

\* ------------------------- the dispatch of one alert, channel by channel
DpMaxAlerts == 2

\* the body of the loop of NotificationService.send_alert for one channel
\* whose call has returned or raised
channel_result(results, channel_name, outcome) ==
    [k \in DOMAIN results \cup {channel_name} |->
        IF k = channel_name THEN outcome = "ok" ELSE results[k]]

dp_rest == <<now, running, engine_vars, db, fp_vars, ap_vars, pd_obs, sent_count,
             notify_obs, last_op, sh_vars, rtsp_vars, sd_vars, nms_vars, cd_vars,
             cl_vars, dec_vars>>

\* NotificationService.__init__ for every enabled_channels list; some
\* alerts are pending; at most one channel has a call that never returns
\* (a connect or a request without timeout to a host that does not answer)
InitDispatch ==
    /\ now = 0
    /\ InitEngine
    /\ InitTasks
    /\ last_results = EmptyMap
    /\ last_attempts = <<>>
    /\ last_outcomes = EmptyMap
    /\ last_op = NoOp
    /\ InitShutdownVars
    /\ InitRtspVars
    /\ InitSdVars
    /\ InitNmsVars
    /\ InitCdVars
    /\ InitClVars
    /\ InitDecVars
    /\ db = <<>>
    /\ \E en \in SUBSET {"sms", "email", "emailjs", "push"} :
          channels = _initialize_channels(en, {"sms", "email", "emailjs", "push"})
    /\ dp_pc = "loop"
    /\ dp_pending \in 1..DpMaxAlerts
    /\ dp_i = 0
    /\ dp_results = EmptyMap
    /\ dp_blocking \in {"none", "sms", "email", "emailjs", "push"}
    /\ dp_done = 0

\* alert_processor: get_pending_alert returns an alert and send_alert calls
\* NotificationService.send_alert, which starts with results = {}
DpGet ==
    /\ dp_pc = "loop"
    /\ dp_pending > 0
    /\ dp_pending' = dp_pending - 1
    /\ dp_pc' = "send"
    /\ dp_i' = 1
    /\ dp_results' = EmptyMap
    /\ UNCHANGED <<channels, dp_blocking, dp_done, dp_rest>>

\* `success = await channel.send_alert(alert_event)`: the call is made.
\* The channels' coroutines have no await of their own and no timeout, and
\* send_alert wraps the call in nothing but try/except.
DpCall ==
    /\ dp_pc = "send"
    /\ dp_i <= Len(channels)
    /\ dp_pc' = "in_channel"
    /\ UNCHANGED <<channels, dp_pending, dp_i, dp_results, dp_blocking, dp_done,
                   dp_rest>>

\* the call returns True or False, or raises: the loop goes on with the
\* next channel.  The call of the blocking channel does none of these.
DpReturn ==
    /\ dp_pc = "in_channel"
    /\ channels[dp_i] # dp_blocking
    /\ \E outcome \in Outcomes :
          dp_results' = channel_result(dp_results, channels[dp_i], outcome)
    /\ dp_i' = dp_i + 1
    /\ dp_pc' = "send"
    /\ UNCHANGED <<channels, dp_pending, dp_blocking, dp_done, dp_rest>>

\* `return results`, and alert_processor is back at its loop
DpFinish ==
    /\ dp_pc = "send"
    /\ dp_i > Len(channels)
    /\ dp_done' = dp_done + 1
    /\ dp_pc' = "loop"
    /\ UNCHANGED <<channels, dp_pending, dp_i, dp_results, dp_blocking, dp_rest>>

NextDispatch ==
    \/ DpGet
    \/ DpCall
    \/ DpReturn
    \/ DpFinish

SpecDispatch == InitDispatch /\ [][NextDispatch]_vars

\* ------------------- corrected_video_test.py: CorrectedRodentTester.decode_output
MaxAnchors == 2
ModelSize == 640
Thousand == 1000

\* sigmoid(x) = 1 / (1 + exp(-clip(x, -500, 500))) at the logits used here,
\* in thousandths; in float32 the clipped ends give exactly 0 and 1
sigmoid(x) ==
    CASE x = 0 - 500 -> 0
      [] x = 0 - 1 -> 269
      [] x = 0 -> 500
      [] x = 2 -> 881
      [] x = 500 -> Thousand

\* int() of a float n/d: the fraction is dropped, towards zero
int_div(n, d) == IF n >= 0 THEN n \div d ELSE 0 - ((0 - n) \div d)

\* np.argmax over the class probabilities: the first index of the maximum
argmax(probs) ==
    CHOOSE i \in 1..Len(probs) :
        /\ \A j \in 1..Len(probs) : probs[j] <= probs[i]
        /\ \A j \in 1..(i - 1) : probs[j] < probs[i]

\* class_scores of one anchor: a single row of scores is a rat / not rat
\* score p and becomes (1 - p, p); else the sigmoid of each row
class_scores(cls) ==
    IF Len(cls) = 1
    THEN <<Thousand - sigmoid(cls[1]), sigmoid(cls[1])>>
    ELSE [i \in 1..Len(cls) |-> sigmoid(cls[i])]

class_names(class_id) ==
    IF class_id = 0 THEN "norway_rat"
    ELSE IF class_id = 1 THEN "roof_rat"
    ELSE "rodent"

\* `np.where(obj_conf > self.conf_threshold)`, obj_conf in thousandths
objectness_valid(obj, thr) == obj > thr

\* `if confidence > self.conf_threshold`, confidence in millionths
confidence_ignored(confidence, thr) == TRUE

confidence_valid(confidence, thr) == confidence > thr * Thousand

\* `if x2_scaled > x1_scaled and y2_scaled > y1_scaled`
box_unchecked(x1, y1, x2, y2) == TRUE

box_valid(x1, y1, x2, y2) == x2 > x1 /\ y2 > y1

\* corner format, clamped to the model's image and scaled to the frame
clamp(v) == Max(0, Min(v, ModelSize))

scaled_bbox(coords, shape) ==
    LET x1 == clamp(int_div(2 * coords[1] - coords[3], 2))
        y1 == clamp(int_div(2 * coords[2] - coords[4], 2))
        x2 == clamp(int_div(2 * coords[1] + coords[3], 2))
        y2 == clamp(int_div(2 * coords[2] + coords[4], 2))
        h_orig == shape[1]
        w_orig == shape[2]
    IN  <<int_div(x1 * w_orig, ModelSize), int_div(y1 * h_orig, ModelSize),
          int_div(x2 * w_orig, ModelSize), int_div(y2 * h_orig, ModelSize)>>

\* the body of the loop over the anchors: the detection appended, if any
decode_anchor(a, thr, shape) ==
    LET obj == sigmoid(a.obj)
        probs == class_scores(a.cls)
        class_id == argmax(probs) - 1
        class_prob == probs[class_id + 1]
        confidence == obj * class_prob
        bbox == scaled_bbox(a.coords, shape)
    IN  IF /\ objectness_valid(obj, thr)
           /\ confidence_valid(confidence, thr)
           /\ box_valid(bbox[1], bbox[2], bbox[3], bbox[4])
        THEN <<[class |-> class_names(class_id), confidence |-> confidence,
                obj_conf |-> obj, class_prob |-> class_prob, bbox |-> bbox]>>
        ELSE <<>>

RECURSIVE decode_loop(_, _, _)
decode_loop(anchors, thr, shape) ==
    IF anchors = <<>> THEN <<>>
    ELSE decode_anchor(Head(anchors), thr, shape) \o decode_loop(Tail(anchors), thr, shape)

\* decode_output: the anchors in order, then NMS when more than one is left
decode_output(anchors, thr, shape, iou_thr) ==
    LET detections == decode_loop(anchors, thr, shape)
    IN  IF Len(detections) > 1 THEN apply_nms(detections, iou_thr) ELSE detections

\* the inputs: objectness below, at and above the thresholds; class scores
\* that leave the combined confidence below or above them; boxes inside
\* the image, across its border, one pixel wide and outside it
DecObjLogits == {0 - 1, 0, 2}
DecClsLogits == {0 - 1, 2}
DecCoords == {<<320, 320, 100, 50>>, <<5, 635, 21, 30>>, <<11, 11, 1, 1>>,
              <<700, 700, 40, 40>>}
DecThresholds == {250, 500, Thousand}
DecShapes == {<<480, 640>>, <<240, 320>>}
DecAnchors(rows) == [coords : DecCoords, obj : DecObjLogits,
                     cls : [1..rows -> DecClsLogits]]

dec_rest == <<base_vars, cd_vars, cl_vars, dp_vars>>

\* CorrectedRodentTester.__init__ and one model output for one frame
InitDecode ==
    /\ InitIdle
    /\ InitCdVars
    /\ InitClVars
    /\ InitDpVars
    /\ dec_pc = "input"
    /\ dec_rows \in 1..2
    /\ dec_anchors \in SeqsUpTo(DecAnchors(dec_rows), MaxAnchors)
    /\ conf_threshold \in DecThresholds
    /\ frame_shape \in DecShapes
    /\ dec_out = <<>>

\* detections = self.decode_output(outputs, frame.shape)
Decode ==
    /\ dec_pc = "input"
    /\ dec_out' = decode_output(dec_anchors, conf_threshold, frame_shape,
                                Fraction(45, 100))
    /\ dec_pc' = "done"
    /\ UNCHANGED <<dec_rows, dec_anchors, conf_threshold, frame_shape, dec_rest>>

NextDecode ==
    \/ Decode

SpecDecode == InitDecode /\ [][NextDecode]_vars





\* ------------------------------- the engine's statistics and clean-up
\* The engine over days: the clock moves by a minute or by a day.
MaintTick ==
    /\ \E step \in {1, timedelta_days(1)} :
          /\ IF step = 1
             THEN now % timedelta_days(1) < MaintMaxMinutes
             ELSE now \div timedelta_days(1) < MaintMaxDays
          /\ now' = now + step
    /\ last_op' = NoOp
    /\ UNCHANGED <<engine_vars, pd_obs, non_engine_vars>>

\* a call of process_detection
MaintProcessDetection ==
    /\ Len(events) < MaintMaxCalls
    /\ \E cls \in ClassNames :
        LET detection == Detection(cls, now, Len(events) + 1)
            r == process_detection(last_alert_times, pending_alerts, events,
                                   detection, now, now, now, now)
        IN  /\ last_alert_times' = r.lat
            /\ pending_alerts' = r.queue
            /\ events' = r.events
    /\ last_op' = NoOp
    /\ UNCHANGED <<now, alert_history, pd_obs, non_engine_vars>>

\* a call of mark_alert_sent
MaintMarkSent ==
    /\ Len(alert_history) < MaintMaxHistory
    /\ \E e \in 1..Len(events) :
        LET m == mark_alert_sent(events, alert_history, e, now)
        IN  /\ events' = m.events
            /\ alert_history' = m.history
    /\ last_op' = NoOp
    /\ UNCHANGED <<now, last_alert_times, pending_alerts, pd_obs,
                   non_engine_vars>>

\* a call of get_alert_statistics
MaintGetStatistics ==
    /\ LET r == get_alert_statistics(last_alert_times, alert_history, events, now)
       IN  /\ last_alert_times' = r.lat
           /\ last_op' = [op |-> "stats", stats |-> r.stats]
    /\ UNCHANGED <<now, pending_alerts, alert_history, events, pd_obs,
                   non_engine_vars>>

\* a call of cleanup_old_alerts(retention_days)
MaintCleanup ==
    /\ \E retention_days \in 0..MaxRetentionDays :
          /\ alert_history' = cleanup_old_alerts(alert_history, events,
                                                 retention_days, now)
          /\ last_op' = [op |-> "cleanup", retention_days |-> retention_days]
    /\ UNCHANGED <<now, last_alert_times, pending_alerts, events, pd_obs,
                   non_engine_vars>>

NextMaint ==
    \/ MaintTick
    \/ MaintProcessDetection
    \/ MaintMarkSent
    \/ MaintGetStatistics
    \/ MaintCleanup

SpecMaint == InitEngineSpec /\ [][NextMaint]_vars

\* ------------------------------------------------ claims on the cooldown
EventClass(i) == events[i].detection.class_name

IsCallStep == lastcall'.n = lastcall.n + 1

\* C1: once an alert for class C was created at time t, a later
\* process_detection call for class C at a time t' with
\* t' - t < cooldown_minutes returns None, so two alerts of one class are
\* never created less than cooldown_minutes apart.
C1_CooldownInvariant ==
    /\ \A i \in 1..Len(events) :
          ( /\ i # lastcall.result
            /\ EventClass(i) = lastcall.cls
            /\ lastcall.at - events[i].created_at < cooldown_minutes )
          => lastcall.result = None
    /\ \A i, j \in 1..Len(events) :
          (i < j /\ EventClass(i) = EventClass(j))
          => events[j].created_at - events[i].created_at >= cooldown_minutes

\* a run of two suppressed calls after an alert of the same class
C1_Witness ==
    /\ lastcall.n = 3
    /\ lastcall.result = None
    /\ prevcall.result = None
    /\ prevcall.cls = lastcall.cls
    /\ \E i \in 1..Len(events) :
          EventClass(i) = lastcall.cls /\ events[i].created_at <= prevcall.at

\* C4: the cooldown is per class.  A call for class D returns None only if
\* an alert for D itself was created less than cooldown_minutes before, and
\* a call changes last_alert_times at no key other than its own class.
C4_PerClass ==
    [][IsCallStep =>
         /\ lastcall'.result = None =>
               /\ lastcall'.prev # NullTime
               /\ lastcall'.at - lastcall'.prev < cooldown_minutes
         /\ DOMAIN last_alert_times' \subseteq DOMAIN last_alert_times \cup {lastcall'.cls}
         /\ \A k \in DOMAIN last_alert_times :
               k # lastcall'.cls =>
                  /\ k \in DOMAIN last_alert_times'
                  /\ last_alert_times'[k] = last_alert_times[k]]_vars

\* an alert for one class while the other class is cooling
C4_Witness ==
    /\ lastcall.result # None
    /\ \E c \in ClassNames \ {lastcall.cls} :
          /\ c \in DOMAIN last_alert_times
          /\ \E t \in created_times[c] : lastcall.at - t < cooldown_minutes

\* C5: when cooldown_minutes have elapsed since the last alert created for
\* the class (or none was ever created), the call returns a new AlertEvent,
\* not yet sent, and appends it to the pending queue.
C5_CooldownRelease ==
    [][(IsCallStep /\ (lastcall'.prev = NullTime
                        \/ lastcall'.at - lastcall'.prev >= cooldown_minutes)) =>
         /\ lastcall'.result = Len(events) + 1
         /\ Len(events') = Len(events) + 1
         /\ events'[lastcall'.result].alert_sent = FALSE
         /\ events'[lastcall'.result].alert_sent_at = NullTime
         /\ events'[lastcall'.result].detection.class_name = lastcall'.cls
         /\ pending_alerts' = Append(pending_alerts, lastcall'.result)]_vars

\* a second alert of a class, created after its cooldown ran out
C5_Witness ==
    /\ lastcall.result # None
    /\ lastcall.prev # NullTime
    /\ lastcall.at - lastcall.prev >= cooldown_minutes
    /\ pending_alerts # <<>>
    /\ pending_alerts[Len(pending_alerts)] = lastcall.result

\* C6: a call made while the cooldown of its class is active returns None
\* and leaves last_alert_times, the pending queue, alert_history and the
\* AlertEvents as they were.
C6_NoSideEffect ==
    [][(IsCallStep /\ lastcall'.active) =>
         /\ lastcall'.result = None
         /\ UNCHANGED <<last_alert_times, pending_alerts, alert_history, events>>]_vars

\* a suppressed call with alerts pending and sent
C6_Witness ==
    /\ lastcall.active
    /\ lastcall.result = None
    /\ pending_alerts # <<>>
    /\ alert_history # <<>>

\* ---------------------------------------------- claims on the orchestrator
HasEvent(k) == \E i \in 1..Len(events) : events[i].detection.serial = k

\* the detection of row p was handed to process_detection while its class
\* was Cooled: no earlier alert of the class lies within the window
StartedCooled(p) ==
    \A i \in 1..Len(events) :
        (EventClass(i) = db[p].class_name /\ events[i].detection.serial < db[p].det)
        => db[p].timestamp - events[i].created_at >= cooldown_minutes

\* C2: every AlertEvent is handed to NotificationService.send_alert once and
\* marked sent at most once, so it occurs at most once in alert_history.
C2_DispatchedOnce ==
    \A e \in 1..Len(events) :
        /\ sent_count[e] <= 1
        /\ Count(alert_history, e) <= 1

\* C3: the cooldown check and the update of last_alert_times are one step
\* for every other task and every other detection.  In each state of the
\* running system every created alert is already recorded in
\* last_alert_times, and of two detections of one class processed less than
\* cooldown_minutes apart, the first of them while the class was Cooled,
\* exactly the first produced an AlertEvent.
C3_AtomicCooldown ==
    /\ \A i \in 1..Len(events) :
          /\ EventClass(i) \in DOMAIN last_alert_times
          /\ last_alert_times[EventClass(i)] >= events[i].created_at
    /\ \A p, q \in 1..Len(db) :
          ( /\ db[p].det < db[q].det
            /\ db[p].class_name = db[q].class_name
            /\ db[q].timestamp - db[p].timestamp < cooldown_minutes
            /\ StartedCooled(p) )
          => (HasEvent(db[p].det) /\ ~HasEvent(db[q].det))

\* two detections of one class in the same instant, one alert
C3_Witness ==
    \E p, q \in 1..Len(db) :
        /\ db[q].det = db[p].det + 1
        /\ db[p].class_name = db[q].class_name
        /\ db[p].timestamp = db[q].timestamp
        /\ HasEvent(db[p].det)
        /\ ~HasEvent(db[q].det)
        /\ ap_pc = "send"

IsSendStep == Len(sent_count') = Len(sent_count) /\ sent_count' # sent_count

SentEvent == CHOOSE e \in 1..Len(sent_count) : sent_count'[e] # sent_count[e]

\* C7: RodentDetectionSystem.send_alert applies mark_alert_sent to the event
\* exactly when the result map of the dispatcher holds at least one True;
\* with no True in it, or with an empty map, the event and alert_history
\* stay as they were.
C7_SentIffAnySuccess ==
    [][IsSendStep =>
         IF \E k \in DOMAIN last_results' : last_results'[k]
         THEN /\ alert_history' = Append(alert_history, SentEvent)
              /\ events'[SentEvent].alert_sent
              /\ events'[SentEvent].alert_sent_at = now
         ELSE UNCHANGED <<alert_history, events>>]_vars

\* one of two channels failed and the event was marked sent
C7_Witness ==
    /\ \E k1, k2 \in DOMAIN last_results : last_results[k1] /\ ~last_results[k2]
    /\ alert_history # <<>>
    /\ events[alert_history[Len(alert_history)]].alert_sent

\* C9: once an event was dispatched with a success, the row that
\* save_detection wrote for its detection has alert_sent set and
\* alert_sent_at filled in.
C9_OutcomePersisted ==
    \A i \in 1..Len(events) :
        Count(alert_history, i) > 0 =>
            \A p \in 1..Len(db) :
                db[p].det = events[i].detection.serial =>
                    (db[p].alert_sent /\ db[p].alert_sent_at # NullTime)

\* ------------------------------------- the notification service on its own
ChannelSet == {channels[i] : i \in 1..Len(channels)}

\* NotificationService.__init__ for every alerts.enabled_channels list and
\* every set of non-empty notifications.<name> sections
InitNotifySpec ==
    /\ now = 0
    /\ InitEngine
    /\ InitTasks
    /\ InitNotifyObs
    /\ \E en \in SUBSET {"sms", "email", "emailjs", "push"},
          cf \in SUBSET {"sms", "email", "emailjs", "push"} :
          channels = _initialize_channels(en, cf)
    /\ db = <<>>

\* a call of NotificationService.send_alert; each channel returns True,
\* returns False or raises
NotifySendAlert ==
    /\ \E outcome \in [ChannelSet -> Outcomes] :
        LET r == notify_send_alert(channels, outcome, 1, EmptyMap, <<>>)
        IN  /\ last_results' = r.results
            /\ last_attempts' = r.attempts
            /\ last_outcomes' = outcome
    /\ UNCHANGED <<now, running, engine_vars, channels, ext_vars, db, fp_vars, ap_vars,
                   pd_obs, sent_count>>

NextNotify == NotifySendAlert

SpecNotify == InitNotifySpec /\ [][NextNotify]_vars

\* C8: NotificationService.send_alert attempts every initialized channel
\* once, in order, whatever the channels before it did; a channel that
\* raises is recorded as False; the map returned has one entry per
\* initialized channel.
C8_ChannelIsolation ==
    (channels # <<>> /\ DOMAIN last_outcomes = ChannelSet) =>
        /\ last_attempts = channels
        /\ DOMAIN last_results = ChannelSet
        /\ \A k \in ChannelSet : last_results[k] = (last_outcomes[k] = "ok")

\* the first channel raised and a later one still delivered
C8_Witness ==
    /\ Len(channels) >= 3
    /\ DOMAIN last_outcomes = ChannelSet
    /\ last_outcomes[channels[1]] = "raise"
    /\ last_outcomes[channels[2]] = "fail"
    /\ last_results[channels[1]] = FALSE
    /\ last_results[channels[3]] = TRUE

\* ----------------------------------------------- the database on its own
\* A DatabaseManager driven through its methods by an arbitrary caller.
InitDbSpec ==
    /\ now = 0
    /\ InitEngine
    /\ InitTasks
    /\ InitNotifyObs
    /\ channels = <<>>
    /\ db = <<>>

non_db_vars == <<running, engine_vars, channels, ext_vars, fp_vars, ap_vars, pd_obs,
                 sent_count, notify_obs>>

DbTick ==
    /\ now < DbMaxTime
    /\ now' = now + 1
    /\ UNCHANGED <<db, non_db_vars>>

\* a call of save_detection
DbSaveDetection ==
    /\ Len(db) < MaxRows
    /\ \E cls \in ClassNames, alert_sent \in BOOLEAN, ok \in BOOLEAN :
          db' = save_detection(db, Detection(cls, now, NextId(db)), now,
                               alert_sent, now, ok)
    /\ UNCHANGED <<now, non_db_vars>>

\* a call of update_alert_status
DbUpdateAlertStatus ==
    /\ \E detection_id \in 1..MaxRows, ok \in BOOLEAN :
          db' = update_alert_status(db, detection_id, now, ok)
    /\ UNCHANGED <<now, non_db_vars>>

NextDb ==
    \/ DbTick
    \/ DbSaveDetection
    \/ DbUpdateAlertStatus

SpecDb == InitDbSpec /\ [][NextDb]_vars

\* C10: a row of the detections table changes only in alert_sent and
\* alert_sent_at, and these only once: alert_sent stays true and
\* alert_sent_at, once set, keeps its value under later update_alert_status
\* calls.
C10_WriteOnce ==
    [][\A p \in 1..Len(db) :
          /\ p <= Len(db')
          /\ db'[p].id = db[p].id
          /\ db'[p].class_name = db[p].class_name
          /\ db'[p].timestamp = db[p].timestamp
          /\ db'[p].image_path = db[p].image_path
          /\ db[p].alert_sent =>
                (db'[p].alert_sent /\ db'[p].alert_sent_at = db[p].alert_sent_at)]_vars

\* ------------------------------------ further claims on the orchestrator
HasRow(k) == \E p \in 1..Len(db) : db[p].det = k

\* C11: every Detection returned by detect() is passed to save_detection,
\* whatever happens to the alerts of its frame: once the frame processor is
\* between frames, each detection constructed so far has its row.
C11_EveryDetectionSaved ==
    fp_pc \in {"idle", "done", "cancelled"} => \A k \in 1..ndets : HasRow(k)

NoSuccess(results) == ~\E k \in DOMAIN results : results[k]

\* C12: when the dispatcher reports no successful channel, the AlertEvent
\* ends in a state that differs from the one it was created in (Pending)
\* and is kept in alert_history.
C12_FailedRetained ==
    [][(IsSendStep /\ NoSuccess(last_results')) =>
         /\ Count(alert_history', SentEvent) > 0
         /\ events'[SentEvent] #
               AlertEvent(events'[SentEvent].detection,
                          events'[SentEvent].image_path,
                          events'[SentEvent].created_at)]_vars

\* C13: while the system is running, no error raised while a frame is
\* processed, an alert is dispatched or its outcome is recorded ends the
\* alert-dispatch loop or the frame loop.
C13_LoopsSurvive ==
    running => (ap_pc # "failed" /\ fp_pc # "cancelled")

\* C15: when the alert-dispatch loop has exited on shutdown, every
\* AlertEvent left in the pending queue (the queue only grows between the
\* signal and the exit) has been handed to the dispatcher at least once.
C15_PendingDispatched ==
    ap_pc = "done" =>
        \A i \in 1..Len(pending_alerts) : sent_count[pending_alerts[i]] >= 1

\* the loop has exited on shutdown with two events left in the queue
C15_Witness ==
    /\ ~running
    /\ ap_pc = "done"
    /\ Len(pending_alerts) = 2

\* ------------------------------- claims on statistics and clean-up
\* C16: get_alert_statistics, _get_cooldown_status included, is read-only:
\* last_alert_times (keys and values), alert_history, the pending queue and
\* every AlertEvent are the same after the call as before it.
C16_StatisticsReadOnly ==
    [][last_op'.op = "stats" =>
         UNCHANGED <<last_alert_times, alert_history, pending_alerts, events>>]_vars

\* statistics taken with one class not yet in last_alert_times, the other in
\* an active cooldown, an alert sent and one pending
C16_Witness ==
    /\ last_op.op = "stats"
    /\ DOMAIN last_op.stats.cooldown_status # ClassNames
    /\ \E c \in DOMAIN last_op.stats.cooldown_status :
          last_op.stats.cooldown_status[c].cooldown_active
    /\ last_op.stats.total_alerts > 0
    /\ pending_alerts # <<>>

\* C17: cleanup_old_alerts(retention_days) removes from alert_history
\* exactly the entries created not later than now - retention_days, keeps
\* the others in their order, and leaves last_alert_times, the pending
\* queue and the events alone, so a cooldown that was active stays active.
C17_CleanupExact ==
    [][last_op'.op = "cleanup" =>
         LET cutoff == now - last_op'.retention_days * 1440
             Kept(e) == ~(events[e].created_at <= cutoff)
         IN  /\ alert_history' = SelectSeq(alert_history, Kept)
             /\ \A i \in 1..Len(alert_history) :
                   Kept(alert_history[i]) <=>
                      Count(alert_history', alert_history[i]) > 0
             /\ UNCHANGED <<last_alert_times, pending_alerts, events>>
             /\ \A c \in ClassNames :
                   ~should_send_alert(last_alert_times, c, now) =>
                      ~should_send_alert(last_alert_times', c, now)]_vars

\* a clean-up that removed the older of two distinct alerts and kept the
\* newer, while a cooldown was active and an alert was pending
C17_Witness ==
    /\ last_op.op = "cleanup"
    /\ Len(alert_history) = 1
    /\ \E e \in 1..Len(events) :
          /\ events[e].alert_sent
          /\ Count(alert_history, e) = 0
          /\ events[e].created_at = now - last_op.retention_days * 1440
    /\ \E c \in ClassNames : ~should_send_alert(last_alert_times, c, now)
    /\ pending_alerts # <<>>

\* ---------------------------------------------------- claim on shutdown
\* C14: once running is False, the four tasks leave their loops and run()
\* returns, whatever the video source is doing.
C14_ShutdownTerminates ==
    (run_pc = "gather" /\ ~running) ~> (run_pc = "returned")

\* --------------------------------------------- claim on the stream sources
\* C18: get_frames of the RTSP and Wyze-Bridge sources never terminates on a
\* failed open or a failed read; the next open follows the failure by at
\* most reconnect_delay seconds; and once the camera stays available frames
\* are yielded again and again.
C18_Reconnects ==
    /\ [](rtsp_pc # "ended")
    /\ [](waited <= reconnect_delay)
    /\ (<>[]src_up) => []<>(rtsp_pc = "yielded")

\* a frame yielded after a failed open and a full reconnect_delay of sleep
C18_Witness ==
    /\ rtsp_pc = "yielded"
    /\ last_fail = "open"
    /\ waited = reconnect_delay
    /\ yields_since_fail = 1

\* --------------------------------------------- claim on the SD-card source
\* C19 as stated: frames are delivered in capture order: within a file by
\* increasing frame index, and no frame of an earlier-recorded file after a
\* frame of a later-recorded file.
C19_CaptureOrder ==
    \A i, j \in 1..Len(delivered) :
        i < j =>
            /\ delivered[i].file = delivered[j].file =>
                  delivered[i].index < delivered[j].index
            /\ delivered[i].file <= delivered[j].file

\* C19, amended: within a file the frames are delivered by increasing frame
\* index and each file is delivered in one piece; the new files that one
\* scan of the card finds are delivered newest first; files of an earlier
\* scan come before those of a later scan; the timestamps given to the
\* frames increase in delivery order.
C19_DeliveryOrder ==
    \A i, j \in 1..Len(delivered) :
        i < j =>
            /\ delivered[i].file = delivered[j].file =>
                  /\ delivered[i].index < delivered[j].index
                  /\ delivered[i].scan = delivered[j].scan
                  /\ \A k \in i..j : delivered[k].file = delivered[i].file
            /\ delivered[i].scan <= delivered[j].scan
            /\ ( /\ delivered[i].scan = delivered[j].scan
                 /\ delivered[i].file # delivered[j].file )
               => delivered[i].file > delivered[j].file
            /\ delivered[i].timestamp < delivered[j].timestamp

\* two files found by one scan and a third by a later scan, the first of
\* them delivering two frames
C19_Witness ==
    \E i, j, k \in 1..Len(delivered) :
        /\ i < j /\ j < k
        /\ delivered[i].scan = delivered[j].scan
        /\ delivered[i].file # delivered[j].file
        /\ delivered[j].scan < delivered[k].scan
        /\ \E h \in 1..Len(delivered) :
              delivered[h].file = delivered[i].file /\ delivered[h].index > 0

\* ------------------------------------------------------- claim on NMS
\* the pixels of a box, and the overlap of two boxes counted in pixels
Pixels(b) == {<<x, y>> : x \in b[1]..(b[3] - 1), y \in b[2]..(b[4] - 1)}

IoUStrictlyBelow(b1, b2, thr) ==
    Cardinality(Pixels(b1) \cap Pixels(b2)) * thr.den
        < thr.num * Cardinality(Pixels(b1) \cup Pixels(b2))

\* C20: after apply_nms every two distinct kept detections have an IoU
\* strictly below iou_threshold (class-agnostic apply_nms), or have it or
\* belong to different classes (class-aware apply_nms).
C20_KeptPairsApart ==
    nms_pc = "done" =>
        \A i, j \in 1..Len(nms_out) :
            i # j =>
                \/ IoUStrictlyBelow(nms_out[i].bbox, nms_out[j].bbox, iou_threshold)
                \/ /\ nms_by = "VideoDetectionTester"
                   /\ nms_out[i].class_id # nms_out[j].class_id

\* two boxes of one class with IoU 3/5, confidences 0.8 and 0.9, threshold
\* 0.45: only the 0.9 box is kept
C20_Witness ==
    /\ nms_pc = "done"
    /\ iou_threshold = Fraction(45, 100)
    /\ nms_in = <<[bbox |-> <<0, 0, 4, 1>>, confidence |-> 8, class_id |-> 0],
                  [bbox |-> <<1, 0, 5, 1>>, confidence |-> 9, class_id |-> 0]>>
    /\ nms_out = <<[bbox |-> <<1, 0, 5, 1>>, confidence |-> 9, class_id |-> 0]>>

\* ------------------------------------------- claims on the alert's state
\* C24: in every state each AlertEvent has alert_sent_at set exactly when
\* alert_sent is true, and every entry of alert_history has alert_sent true.
C24_SentAtIffSent ==
    /\ \A e \in 1..Len(events) :
          (events[e].alert_sent_at # NullTime) <=> events[e].alert_sent
    /\ \A i \in 1..Len(alert_history) : events[alert_history[i]].alert_sent

\* one event sent and in the history, another dispatched without success
C24_Witness ==
    /\ alert_history # <<>>
    /\ \E e \in 1..Len(events) :
          /\ sent_count[e] >= 1
          /\ ~events[e].alert_sent
          /\ events[e].alert_sent_at = NullTime

\* C25: the cooldown is consumed when the alert is created: the step that
\* creates an AlertEvent records its class in last_alert_times, no dispatch
\* changes last_alert_times whatever its outcome, and two alerts of one
\* class are never created less than cooldown_minutes apart, delivered or
\* not.
C25_CooldownByCreation ==
    [][/\ Len(events') > Len(events) =>
             /\ events'[Len(events')].detection.class_name
                    \in DOMAIN last_alert_times'
             /\ last_alert_times'[events'[Len(events')].detection.class_name] =
                    events'[Len(events')].created_at
       /\ IsSendStep => UNCHANGED last_alert_times
       /\ \A i, j \in 1..Len(events') :
             (i < j /\ events'[i].detection.class_name
                          = events'[j].detection.class_name)
             => events'[j].created_at - events'[i].created_at >= cooldown_minutes]_vars

\* an alert whose dispatch failed on both channels, a later detection of
\* its class suppressed inside the cooldown, and a new alert of the class
\* once the cooldown had elapsed
C25_Witness ==
    /\ Len(channels) = 2
    /\ \E e, f \in 1..Len(events) :
          /\ e < f
          /\ EventClass(e) = EventClass(f)
          /\ sent_count[e] >= 1
          /\ ~events[e].alert_sent
          /\ \E p \in 1..Len(db) :
                /\ db[p].class_name = EventClass(e)
                /\ db[p].det > events[e].detection.serial
                /\ db[p].det < events[f].detection.serial
                /\ ~HasEvent(db[p].det)

\* ------------------------------------------- claims on the pending queue
\* the events created and not yet handed to alert_processor, oldest first
Undequeued(n, k) == [i \in 1..k |-> n - k + i]

\* C29: the pending queue is first-in first-out and loses nothing while
\* the system runs: the queue always holds the newest events in creation
\* order, the only step that shortens it is alert_processor taking its
\* oldest entry, so the events leave it in the order 1, 2, 3, ... each
\* once, and get_pending_alert on an empty queue returns None and leaves
\* the queue empty.
C29_FifoLossless ==
    [][/\ pending_alerts' = Undequeued(Len(events'), Len(pending_alerts'))
       /\ Len(pending_alerts') < Len(pending_alerts) =>
             /\ ap_pc = "loop" /\ ap_pc' = "send"
             /\ ap_alert' = Len(events) - Len(pending_alerts) + 1
             /\ pending_alerts' = Tail(pending_alerts)
             /\ events' = events
       /\ get_pending_alert(<<>>) = [alert |-> None, queue |-> <<>>]
       /\ (ap_pc = "loop" /\ pending_alerts = <<>> /\ Len(events') = Len(events))
             => (pending_alerts' = <<>> /\ ap_alert' = ap_alert)]_vars

\* alert_processor has taken the second event while the third waits
C29_Witness ==
    /\ ap_pc = "send"
    /\ ap_alert = 2
    /\ pending_alerts = <<3>>

\* ------------------------------------------- claims on the greedy NMS
IoUStrictlyAbove(b1, b2, thr) ==
    Cardinality(Pixels(b1) \cap Pixels(b2)) * thr.den
        > thr.num * Cardinality(Pixels(b1) \cup Pixels(b2))

\* the detections apply_nms dropped, as values
Suppressed == {v \in {nms_in[i] : i \in 1..Len(nms_in)} :
                  Count(nms_out, v) < Count(nms_in, v)}

\* the result is a sub-collection of the input, in descending confidence,
\* led by a detection of the highest confidence
NmsSubsetOrdered ==
    /\ \A i \in 1..Len(nms_out) :
          Count(nms_out, nms_out[i]) <= Count(nms_in, nms_out[i])
    /\ \A i, j \in 1..Len(nms_out) :
          i < j => nms_out[i].confidence >= nms_out[j].confidence
    /\ nms_in # <<>> =>
          /\ nms_out # <<>>
          /\ \A i \in 1..Len(nms_in) : nms_in[i].confidence <= nms_out[1].confidence

\* C27 as stated: apply_nms is greedy by confidence and a detection is
\* dropped only for a kept detection of at least its confidence whose IoU
\* with it exceeds iou_threshold, so a box whose IoU with the kept box
\* equals iou_threshold survives.
C27_DropsOnlyAbove ==
    (nms_pc = "done" /\ nms_by = "CorrectedRodentTester") =>
        /\ NmsSubsetOrdered
        /\ \A v \in Suppressed :
              \E k \in 1..Len(nms_out) :
                  /\ nms_out[k].confidence >= v.confidence
                  /\ IoUStrictlyAbove(nms_out[k].bbox, v.bbox, iou_threshold)

\* C27: apply_nms is greedy by confidence: the result is a sub-collection
\* of the input in descending confidence that holds a detection of the
\* highest confidence; a detection is dropped exactly for a kept detection
\* of at least its confidence whose IoU with it is at least iou_threshold,
\* and every two kept detections have an IoU strictly below it.
C27_DropsAtOrAbove ==
    (nms_pc = "done" /\ nms_by = "CorrectedRodentTester") =>
        /\ NmsSubsetOrdered
        /\ \A v \in Suppressed :
              \E k \in 1..Len(nms_out) :
                  /\ nms_out[k].confidence >= v.confidence
                  /\ ~IoUStrictlyBelow(nms_out[k].bbox, v.bbox, iou_threshold)
        /\ \A i, j \in 1..Len(nms_out) :
              i # j => IoUStrictlyBelow(nms_out[i].bbox, nms_out[j].bbox, iou_threshold)

\* threshold 1/2 and two boxes whose IoU is exactly 1/2: the box of the
\* lower confidence is dropped
C27_Witness ==
    /\ nms_pc = "done"
    /\ nms_by = "CorrectedRodentTester"
    /\ iou_threshold = Fraction(1, 2)
    /\ nms_in = <<[bbox |-> <<0, 0, 1, 2>>, confidence |-> 8, class_id |-> 0],
                  [bbox |-> <<0, 0, 2, 2>>, confidence |-> 9, class_id |-> 0]>>
    /\ nms_out = <<[bbox |-> <<0, 0, 2, 2>>, confidence |-> 9, class_id |-> 0]>>

\* ------------------------------------------- claims on the cooldown status
CdRemaining == Max(0, CdCooldown - (cd_now - cd_last))

\* C26 as stated: for a class present in last_alert_times cooldown_active
\* is true exactly when should_send_alert returns False, and the reported
\* remaining cooldown equals max(0, cooldown - elapsed).
C26_RemainingExact ==
    (cd_status # <<>> /\ cd_send # <<>>) =>
        /\ cd_status[1].cooldown_active <=> ~cd_send[1]
        /\ cd_status[1].cooldown_remaining_seconds * CdTicksPerSecond = CdRemaining

\* C26: for a class present in last_alert_times cooldown_active is true
\* exactly when should_send_alert returns False, and the reported
\* cooldown_remaining_seconds is max(0, cooldown - elapsed) cut down to
\* whole seconds: never negative, never above the true remainder and less
\* than one second below it.
C26_RemainingWholeSeconds ==
    (cd_status # <<>> /\ cd_send # <<>>) =>
        /\ cd_status[1].cooldown_active <=> ~cd_send[1]
        /\ cd_status[1].cooldown_active <=> (cd_now - cd_last < CdCooldown)
        /\ cd_status[1].cooldown_remaining_seconds >= 0
        /\ cd_status[1].cooldown_remaining_seconds * CdTicksPerSecond <= CdRemaining
        /\ CdRemaining < (cd_status[1].cooldown_remaining_seconds + 1) * CdTicksPerSecond

\* one tick before the cooldown ends: the class is still held back and the
\* status reports zero whole seconds
C26_Witness ==
    /\ cd_status # <<>>
    /\ cd_send = <<FALSE>>
    /\ cd_now - cd_last = CdCooldown - 1
    /\ cd_status[1].cooldown_active
    /\ cd_status[1].cooldown_remaining_seconds = 0

\* ------------------------------------------- claims on the frame sampling
\* the frames yielded so far from the file being read
FromThisFile == SelectSeq(delivered, LAMBDA e : e.file = video_file)

\* the frames of the file read so far: those before frame_count, and frame
\* frame_count itself while the generator is suspended at its yield
FramesRead == IF sd_pc = "yielded" THEN frame_count + 1 ELSE frame_count

\* file sources: every yielded frame has an index that is a multiple of
\* frame_skip, and of the file being read the multiples of frame_skip among
\* the frames read so far have been yielded, each once, in order
FileSamplingExact ==
    /\ \A k \in 1..Len(delivered) : delivered[k].index % frame_skip = 0
    /\ sd_pc \in {"read", "yielded"} =>
          /\ Len(FromThisFile) =
                Cardinality({i \in 0..(FramesRead - 1) : i % frame_skip = 0})
          /\ \A k \in 1..Len(FromThisFile) :
                FromThisFile[k].index = (k - 1) * frame_skip

\* stream sources: a frame is yielded only when at least frame_interval
\* seconds have passed since the previously yielded frame
StreamSamplingSpaced ==
    (rtsp_pc = "yielded" /\ since_yield # NullTime) => since_yield >= frame_interval

\* C30: the file sources yield, in order, exactly the frames whose
\* zero-based index in the file is a multiple of frame_skip, and the stream
\* source yields a frame only when at least 1/frame_rate seconds have
\* passed since the previously yielded frame.
C30_SamplingExact ==
    /\ FileSamplingExact
    /\ StreamSamplingSpaced

\* ------------------------------------------- claims on the record clean-up
RowsOf(rows) == {rows[i] : i \in 1..Len(rows)}

\* C28: cleanup_old_records deletes exactly the records whose timestamp is
\* older than now - retention_days together with their image files; after
\* it returns, committed or rolled back, an image file has been removed
\* only if no remaining record refers to it, and every record inside the
\* retention window is unchanged and still has its image.
C28_CleanupConsistent ==
    cl_last # <<>> =>
        LET before == cl_last[1]
            removed == before.files \ image_files
        IN  /\ before.committed =>
                  /\ RowsOf(db) = {r \in RowsOf(before.rows) :
                                      r.timestamp >= before.cutoff_date}
                  /\ \A r \in RowsOf(before.rows) \ RowsOf(db) :
                        r.image_path \notin image_files
            /\ \A f \in removed : \A r \in RowsOf(db) : r.image_path # f
            /\ \A r \in RowsOf(before.rows) :
                  r.timestamp >= before.cutoff_date =>
                      /\ r \in RowsOf(db)
                      /\ r.image_path \in before.files => r.image_path \in image_files

\* ------------------------------------------- claims on a blocking channel
\* C23: one slow channel cannot stall the dispatch: while a channel's
\* send_alert has not returned, the dispatcher still has a step to take
\* with channels left to attempt or alerts left pending, the dispatcher
\* still has a step to take (the call returns, or is timed out), so the
\* remaining channels are attempted and alert_processor goes on to the
\* later pending alerts.
C23_NoStall ==
    (dp_pc = "in_channel" /\ (dp_i < Len(channels) \/ dp_pending > 0))
        => ENABLED <<NextDispatch>>_vars

\* ------------------------------------------- claims on decode_output
\* the anchors whose objectness exceeds the threshold
PassObjectness ==
    {i \in 1..Len(dec_anchors) : sigmoid(dec_anchors[i].obj) > conf_threshold}

\* the best class probability of anchor i
BestClassProb(i) ==
    LET probs == class_scores(dec_anchors[i].cls)
    IN  SetMax({probs[j] : j \in 1..Len(probs)})

\* C21: decode_output returns no detection whose combined confidence
\* (objectness times the probability of the selected class) is below
\* conf_threshold, and none whose objectness does not exceed
\* conf_threshold; each returned detection is an anchor of the output with
\* these values; when no anchor passes, the result is the empty list.
C21_ThresholdsRespected ==
    dec_pc = "done" =>
        /\ \A k \in 1..Len(dec_out) :
              /\ dec_out[k].confidence = dec_out[k].obj_conf * dec_out[k].class_prob
              /\ dec_out[k].confidence >= conf_threshold * Thousand
              /\ dec_out[k].obj_conf > conf_threshold
              /\ \E i \in PassObjectness :
                    /\ sigmoid(dec_anchors[i].obj) = dec_out[k].obj_conf
                    /\ BestClassProb(i) = dec_out[k].class_prob
        /\ PassObjectness = {} => dec_out = <<>>

\* threshold 0.25: the first anchor passes objectness (0.881) with a
\* combined confidence of 0.881 * 0.269 and is dropped, the second is
\* returned
C21_Witness ==
    /\ dec_pc = "done"
    /\ conf_threshold = 250
    /\ Len(dec_anchors) = 2
    /\ dec_anchors[1].obj = 2
    /\ dec_anchors[1].cls = <<0 - 1, 0 - 1>>
    /\ dec_anchors[1].coords = <<320, 320, 100, 50>>
    /\ Len(dec_out) = 1
    /\ dec_out[1].obj_conf = 500
    /\ dec_out[1].class_prob = 881

\* C22: every detection decode_output returns has a box in the pixel
\* coordinates of the original frame with 0 <= x1 < x2 <= frame width and
\* 0 <= y1 < y2 <= frame height; a candidate whose clamped and rescaled box
\* is degenerate is not returned.
C22_BoxesInFrame ==
    dec_pc = "done" =>
        \A k \in 1..Len(dec_out) :
            LET b == dec_out[k].bbox
            IN  /\ 0 <= b[1] /\ b[1] < b[3] /\ b[3] <= frame_shape[2]
                /\ 0 <= b[2] /\ b[2] < b[4] /\ b[4] <= frame_shape[1]

\* a frame of 320 x 240: the one-pixel box of a confident anchor collapses
\* and is dropped, the box across the border is returned clamped
C22_Witness ==
    /\ dec_pc = "done"
    /\ conf_threshold = 250
    /\ frame_shape = <<240, 320>>
    /\ Len(dec_anchors) = 2
    /\ dec_anchors[1].obj = 2
    /\ dec_anchors[1].cls = <<2>>
    /\ dec_anchors[1].coords = <<11, 11, 1, 1>>
    /\ dec_anchors[2].coords = <<5, 635, 21, 30>>
    /\ Len(dec_out) = 1
    /\ dec_out[1].bbox = <<0, 232, 7, 240>>

====
